---- MODULE Spec2Model ----
(***************************************************************************)
(* HiCT_Library: the editable assembly over a chunked Hi-C contact matrix. *)
(* The contig tree and the scaffold tree are kept as their in-order node   *)
(* lists (every lazy reversal pushed); ChunkedFile's operations are        *)
(* translated from hict/core/chunked_file.py.                              *)
(***************************************************************************)
EXTENDS Integers, Sequences, FiniteSets, TLC

VARIABLES
    contig_tree,     \* in-order list of contig-tree nodes [cd, direction]
    scaffold_tree,   \* in-order list of scaffold-tree nodes [sd, length_bp]
    scaffold_ids,    \* number of scaffold descriptors the scaffold tree has created
    nedits,          \* number of editing calls made since open
    last,            \* what the last call was and how it ended
    threads,         \* the tree locks, and each thread's place in its call
    file             \* the state of the file descriptor

vars == <<contig_tree, scaffold_tree, scaffold_ids, nedits, last, threads, file>>

\* ---------------------------------------------------------------- bounds
MaxEdits == 2
MaxScaffoldId == 2
\* the longest range, in bins, of the dense windows that are read in every state
MaxWindow == 3
\* the length in bp of the scaffold tree that is built on its own, and the
\* number of operations done on it
TestTreeLength == 5
MaxTreeOps == 3
\* the largest number read from a decimal field of an AGP line
MaxAgpCoordinate == 2000
\* edits in a behaviour of splits, moves and reversals of whole contigs
MaxSplitEdits == 3

\* ------------------------------------------------------------- utilities
FORWARD == "FORWARD"
REVERSED == "REVERSED"

\* ContigDirection(1 - value), ATUDirection(1 - value)
\* a direction that is set to REVERSED, whatever it was
SetReversed(d) == REVERSED

FlipDirection(d) == IF d = FORWARD THEN REVERSED ELSE FORWARD

Min2(a, b) == IF a < b THEN a ELSE b
Max2(a, b) == IF a > b THEN a ELSE b

RECURSIVE SeqSum(_)
SeqSum(s) == IF s = <<>> THEN 0 ELSE s[1] + SeqSum(Tail(s))

Cumsum(s) == [i \in 1..Len(s) |-> SeqSum(SubSeq(s, 1, i))]

ReverseSeq(s) == [i \in 1..Len(s) |-> s[Len(s) + 1 - i]]

RECURSIVE Concat(_)
Concat(ss) == IF ss = <<>> THEN <<>> ELSE ss[1] \o Concat(Tail(ss))

constrain_coordinate(x_bins, lower, upper) == Max2(Min2(x_bins, upper), lower)

\* np.searchsorted(a, v, side='right') on a non-decreasing array
searchsorted_right(a, v) == Cardinality({i \in 1..Len(a) : a[i] <= v})

\* np.searchsorted(a, v, side='left') on a non-decreasing array
searchsorted_left(a, v) == Cardinality({i \in 1..Len(a) : a[i] < v})

\* ------------------------------------------------------ the file descriptor
\* ChunkedFile.__init__: state CLOSED, no resolutions, no contig tree, no
\* scaffold tree; loaded tells whether open() has filled them
ConstructedFile == [state |-> "CLOSED", loaded |-> FALSE]
\* ChunkedFile.open
OpenedFile == [state |-> "OPENED", loaded |-> TRUE]
\* ChunkedFile.close: the state alone changes
ClosedFile == [state |-> "CLOSED", loaded |-> TRUE]

\* ------------------------------------------------------------ threads
\* the threads that call into one opened file: two that edit and one that reads
Writers == {"writer1", "writer2"}
Threads == Writers \cup {"reader"}
\* no call: the thread has not called yet
NoCall ==
    [op |-> "none", args |-> <<>>, agp_file |-> <<>>, borders |-> <<0, 0>>, total |-> 0,
     row_atus |-> <<>>, col_atus |-> <<>>, rows_seen |-> <<>>, cols_seen |-> <<>>,
     contigs |-> <<>>, scaffolds |-> <<>>, mid_edit |-> FALSE]
\* contig_tree.root_lock and scaffold_tree.root_lock: the thread that holds the
\* write lock ("" for none); read locks are taken and released within one step
IdleThreads ==
    [contig_w |-> "", scaffold_w |-> "",
     pc |-> [t \in Threads |-> "idle"],
     call |-> [t \in Threads |-> NoCall]]

\* ---------------------------------------------------- the opened store
\* /resolutions keys, sorted
resolutions == <<2, 4>>
ResolutionSet == {resolutions[i] : i \in 1..Len(resolutions)}
min_resolution == CHOOSE r \in ResolutionSet : \A q \in ResolutionSet : r <= q

\* /resolutions/{R}/stripes/stripe_length_bins
stripe_length_bins == [r \in ResolutionSet |->
    IF r = 2 THEN <<2, 1, 2, 2>> ELSE <<2, 1, 1>>]

StripeCount(r) == Len(stripe_length_bins[r])
StripeLength(r, stripe_id) == stripe_length_bins[r][stripe_id + 1]
\* the source-order bin at which a stripe starts
StripeStart(r, stripe_id) == SeqSum(SubSeq(stripe_length_bins[r], 1, stripe_id))
\* dense_submatrix_size[resolution]: the longest stripe
dense_submatrix_size(r) ==
    CHOOSE m \in {StripeLength(r, s) : s \in 0..(StripeCount(r) - 1)} :
        \A s \in 0..(StripeCount(r) - 1) : StripeLength(r, s) <= m

ATU(stripe_id, start_incl, end_excl, direction) ==
    [stripe |-> stripe_id, start |-> start_incl, end |-> end_excl, dir |-> direction]

AtuLength(atu) == atu.end - atu.start
AtusLength(atus) == SeqSum([i \in 1..Len(atus) |-> AtuLength(atus[i])])

\* /contig_info/contig_name, contig_length_bp
contig_names == << <<"ctg0">>, <<"ctg1">>, <<"ctg2">> >>
contig_lengths_bp == <<6, 3, 4>>
ContigIds == 0..(Len(contig_names) - 1)

\* /resolutions/{R}/contigs/atl joined with /resolutions/{R}/atl/basis_atu
contig_id_to_atus == [c \in ContigIds |-> [r \in ResolutionSet |->
    IF r = 2
    THEN CASE c = 0 -> <<ATU(0, 0, 2, FORWARD), ATU(1, 0, 1, FORWARD)>>
           [] c = 1 -> <<ATU(2, 0, 2, FORWARD)>>
           [] c = 2 -> <<ATU(3, 0, 2, FORWARD)>>
    ELSE CASE c = 0 -> <<ATU(0, 0, 2, FORWARD)>>
           [] c = 1 -> <<ATU(1, 0, 1, FORWARD)>>
           [] c = 2 -> <<ATU(2, 0, 1, FORWARD)>>]]

\* /resolutions/{R}/contigs/contig_length_bins
resolution_to_contig_length_bins == [r \in ResolutionSet |-> [c \in ContigIds |->
    AtusLength(contig_id_to_atus[c][r])]]

\* /resolutions/{R}/contigs/contig_hide_type
resolution_to_contig_hide_type == [r \in ResolutionSet |-> [c \in ContigIds |->
    IF r = 4 /\ c = 2 THEN "FORCED_SHOWN" ELSE "AUTO_SHOWN"]]

\* open(): the presence map of a contig; resolution 0 is forced shown and small
\* contigs are hidden at the zoomed resolutions (resolutions[1:])
contig_presence_at_resolution(c) == [r \in {0} \cup ResolutionSet |->
    IF r = 0 THEN "FORCED_SHOWN"
    ELSE IF r # resolutions[1] /\ contig_lengths_bp[c + 1] < r THEN "AUTO_HIDDEN"
    ELSE resolution_to_contig_hide_type[r][c]]

\* ContigDescriptor.make_contig_descriptor: key 0 of the length map is the bp length
make_contig_descriptor(contig_id, contig_name, contig_length_bp, contig_length_at_resolution, contig_presence_in_resolution, atus) ==
    [contig_id |-> contig_id,
     contig_name |-> contig_name,
     contig_length_at_resolution |-> [r \in {0} \cup ResolutionSet |->
        IF r = 0 THEN contig_length_bp ELSE contig_length_at_resolution[r]],
     presence_in_resolution |-> contig_presence_in_resolution,
     atus |-> atus]

\* open(): contig_id_to_contig_descriptor
contig_id_to_contig_descriptor == [c \in ContigIds |->
    make_contig_descriptor(c, contig_names[c + 1], contig_lengths_bp[c + 1],
        [r \in ResolutionSet |-> resolution_to_contig_length_bins[r][c]],
        contig_presence_at_resolution(c),
        contig_id_to_atus[c])]

\* ContigDescriptor.atu_prefix_sum_length_bins[resolution]
atu_prefix_sum_length_bins(cd, r) ==
    Cumsum([i \in 1..Len(cd.atus[r]) |-> AtuLength(cd.atus[r][i])])

\* ------------------------------------------------------- the contig tree
Node(cd, direction) == [cd |-> cd, direction |-> direction]

\* a node skipped by traverse_nodes_at_resolution when hidden contigs are excluded
IsHidden(node, r) == node.cd.presence_in_resolution[r] = "AUTO_HIDDEN"

\* the length a node adds to its subtree's size in the given units
NodeLength(node, r, units) ==
    CASE units = "BASE_PAIRS" -> node.cd.contig_length_at_resolution[0]
      [] units = "BINS" -> node.cd.contig_length_at_resolution[r]
      [] units = "PIXELS" ->
            IF IsHidden(node, r) THEN 0 ELSE node.cd.contig_length_at_resolution[r]

SizeIn(t, r, units) == SeqSum([i \in 1..Len(t) |-> NodeLength(t[i], r, units)])

\* Node.get_sizes(): (length in bins by resolution, with the bp length under key 0;
\* node count; length in pixels by resolution)
get_sizes(t) ==
    <<[r \in {0} \cup ResolutionSet |->
          IF r = 0 THEN SizeIn(t, 0, "BASE_PAIRS") ELSE SizeIn(t, r, "BINS")],
      Len(t),
      [r \in ResolutionSet |-> SizeIn(t, r, "PIXELS")]>>

\* split_node_by_length: the longest prefix of nodes whose length is at most k
\* (include_equal_to_the_left) or less than k (otherwise) goes left
split_node_by_length(r, t, k, include_equal_to_the_left, units) ==
    LET endOf(i) == SizeIn(SubSeq(t, 1, i), r, units)
        goesLeft(i) == IF include_equal_to_the_left THEN endOf(i) <= k
                       ELSE endOf(i) < k
        n == Cardinality({i \in 1..Len(t) : \A j \in 1..i : goesLeft(j)})
    IN  <<SubSeq(t, 1, n), SubSeq(t, n + 1, Len(t))>>

\* expose_segment: the contigs that cover [start_incl, end_excl); the nodes that
\* start at or after end_excl are split off to the right, then the nodes that
\* end at or before start_incl to the left
expose_segment(t, r, start_incl, end_excl, units) ==
    LET startOf(i) == SizeIn(SubSeq(t, 1, i - 1), r, units)
        n == Cardinality({i \in 1..Len(t) : \A j \in 1..i : startOf(j) < end_excl})
        l_seg == split_node_by_length(r, SubSeq(t, 1, n), start_incl, TRUE, units)
    IN  [less |-> l_seg[1], segment |-> l_seg[2], greater |-> SubSeq(t, n + 1, Len(t))]

\* commit_exposed_segment: two merges
commit_exposed_segment(es) == es.less \o es.segment \o es.greater

\* ATUDescriptor.reduce: adjacent ATUs of one stripe, one direction and
\* contiguous indices are fused
RECURSIVE reduce(_)
reduce(atus) ==
    IF Len(atus) < 2 THEN atus
    ELSE LET a == atus[1]
             b == atus[2]
         IN  IF a.stripe = b.stripe /\ a.dir = b.dir /\ a.end = b.start
             THEN reduce(<<ATU(a.stripe, a.start, b.end, a.dir)>> \o SubSeq(atus, 3, Len(atus)))
             ELSE <<a>> \o reduce(Tail(atus))

\* the prefix sum of the stored order, taken as it is
StoredPrefixSum(p) == p

\* the orientation-adjusted prefix sum: p[:-1] = p[-1] - flip(p)[1:]
AdjustedPrefixSum(p) ==
    [i \in 1..Len(p) |-> IF i = Len(p) THEN p[i] ELSE p[Len(p)] - p[Len(p) - i]]

\* ------------------------------------------------------------ ATU resolver
AtusOk(atus) == [ok |-> TRUE, err |-> "", atus |-> atus]
AtusFail(msg) == [ok |-> FALSE, err |-> msg, atus |-> <<>>]

\* the ATUs of a node as they are stored
stored_contig_atus(node, r) == node.cd.atus[r]

\* traverse_fn of get_atus_for_range: the ATUs of a node in its true direction
true_contig_atus(node, r) ==
    IF node.direction = REVERSED
    THEN LET src == node.cd.atus[r]
         IN  [i \in 1..Len(src) |->
                LET atu == src[Len(src) + 1 - i]
                IN  ATU(atu.stripe, atu.start, atu.end, FlipDirection(atu.dir))]
    ELSE node.cd.atus[r]

\* the left trim of get_atus_for_range
TrimLeft(atus, first, r, delta) ==
    LET src_ps == atu_prefix_sum_length_bins(first.cd, r)
    IN  IF first.direction = REVERSED /\ src_ps = <<>>
        THEN AtusFail("IndexError")
        ELSE
        LET ps == IF first.direction = REVERSED THEN AdjustedPrefixSum(src_ps) ELSE src_ps
            index == searchsorted_right(ps, delta)
            before == IF index > 0 THEN ps[index] ELSE 0
        IN  IF ~(index < Len(ps))
            THEN AtusFail("Start of query does not fall into exposed leftmost contig??")
            ELSE IF index + 1 > Len(atus) THEN AtusFail("IndexError")
            ELSE
            LET old == atus[index + 1]
                new == IF old.dir = FORWARD
                       THEN ATU(old.stripe, old.start + (delta - before), old.end, old.dir)
                       ELSE ATU(old.stripe, old.start, old.end - (delta - before), old.dir)
            IN  IF ~(old.start < old.end) THEN AtusFail("Incorrect old first ATU??")
                ELSE IF old.dir # FORWARD /\ ~(new.end >= 0)
                THEN AtusFail("Negative right border of new reversed ATU??")
                ELSE IF ~(0 <= new.start /\ new.start < StripeLength(r, new.stripe))
                THEN AtusFail("Incorrect first ATU left border??")
                ELSE IF ~(new.start < new.end) THEN AtusFail("Incorrect new first ATU??")
                ELSE AtusOk(<<new>> \o SubSeq(atus, index + 2, Len(atus)))

\* the right trim of get_atus_for_range; delta_r <= 0
TrimRight(atus, lastn, r, delta_r) ==
    LET src_ps == atu_prefix_sum_length_bins(lastn.cd, r)
    IN  IF lastn.direction = FORWARD /\ src_ps = <<>>
        THEN AtusFail("IndexError")
        ELSE
        LET ps == IF lastn.direction = FORWARD THEN AdjustedPrefixSum(src_ps) ELSE src_ps
            right_offset_atus == searchsorted_right(ps, 0 - delta_r)
            kept == IF right_offset_atus > 0
                    THEN SubSeq(atus, 1, Len(atus) - right_offset_atus)
                    ELSE atus
            deleted_atus_length == IF right_offset_atus > 0 THEN ps[right_offset_atus] ELSE 0
        IN  IF kept = <<>> THEN AtusFail("IndexError")
            ELSE
            LET old == kept[Len(kept)]
                new == IF old.dir = FORWARD
                       THEN ATU(old.stripe, old.start,
                                old.end + (deleted_atus_length + delta_r), old.dir)
                       ELSE ATU(old.stripe,
                                old.start - (deleted_atus_length + delta_r), old.end, old.dir)
            IN  IF ~(old.start < old.end) THEN AtusFail("Incorrect old last ATU??")
                ELSE IF old.dir # FORWARD /\ ~(new.start >= 0)
                THEN AtusFail("Negative left border of new reversed last ATU??")
                ELSE IF ~(StripeLength(r, new.stripe) >= new.end /\ new.end > new.start)
                THEN AtusFail("Incorrect ATU right border??")
                ELSE AtusOk(SubSeq(kept, 1, Len(kept) - 1) \o <<new>>)

get_atus_for_range(t, r, start_px, end_px, exclude_hidden_contigs) ==
    LET units == IF exclude_hidden_contigs THEN "PIXELS" ELSE "BINS"
        total_assembly_length == SizeIn(t, r, units)
        start_px_incl == constrain_coordinate(start_px, 0, total_assembly_length)
        end_px_excl == constrain_coordinate(end_px, 0, total_assembly_length)
        es == expose_segment(t, r, start_px_incl, end_px_excl, units)
        query_length == end_px_excl - start_px_incl
    IN  IF query_length <= 0 THEN AtusOk(<<>>)
        ELSE IF es.segment = <<>>
        THEN AtusFail("Query is not zero-length, but no ATUs were found?")
        ELSE
        LET segment_size == SizeIn(es.segment, r, units)
            less_size == SizeIn(es.less, r, units)
            delta == start_px_incl - less_size
            shown == SelectSeq(es.segment,
                        LAMBDA n : ~(exclude_hidden_contigs /\ IsHidden(n, r)))
            atus == Concat([i \in 1..Len(shown) |-> true_contig_atus(shown[i], r)])
            expected_total_length ==
                Min2(end_px_excl, total_assembly_length) - Max2(0, start_px_incl)
        IN  IF ~(delta >= 0) THEN AtusFail("AssertionError")
            ELSE IF AtusLength(atus) # segment_size
            THEN AtusFail("ATUs total length is not equal to exposed segment length??")
            ELSE
            LET lt == TrimLeft(atus, es.segment[1], r, delta)
            IN  IF ~lt.ok THEN lt
                ELSE
                LET rt == TrimRight(lt.atus, es.segment[Len(es.segment)], r,
                                    end_px_excl - (less_size + segment_size))
                IN  IF ~rt.ok THEN rt
                    ELSE IF \E i \in 1..Len(rt.atus) : ~(rt.atus[i].start < rt.atus[i].end)
                    THEN AtusFail("Incorrect ATUs before reduce??")
                    ELSE IF AtusLength(rt.atus) # expected_total_length
                    THEN AtusFail("ATUs total length is not equal to the requested query's")
                    ELSE
                    LET result_atus == reduce(rt.atus)
                    IN  IF \E i \in 1..Len(result_atus) :
                               ~(result_atus[i].start < result_atus[i].end)
                        THEN AtusFail("Incorrect ATUs after reduce??")
                        ELSE IF (Len(result_atus) <= 0) # (start_px_incl >= end_px_excl)
                        THEN AtusFail("No row ATUs were fetched but query is correct??")
                        ELSE IF AtusLength(result_atus) # expected_total_length
                        THEN AtusFail("Resulting ATUs total length is not equal to the requested query??")
                        ELSE AtusOk(result_atus)

\* --------------------------------------------------------- dense matrices
\* a numpy 2-D array: its shape and its rows
Mat(h, w, f) ==
    [shape |-> <<h, w>>,
     rows |-> [i \in 1..h |-> [j \in 1..w |-> f[i, j]] \o <<>>] \o <<>>]

Zeros(h, w) == Mat(h, w, [i \in 1..(h), j \in 1..(w) |-> 0])
Transpose(m) == Mat(m.shape[2], m.shape[1], [i \in 1..(m.shape[2]), j \in 1..(m.shape[1]) |-> m.rows[j][i]])
\* np.flip(m, axis=0) and np.flip(m, axis=1)
FlipRows(m) == Mat(m.shape[1], m.shape[2], [i \in 1..(m.shape[1]), j \in 1..(m.shape[2]) |-> m.rows[m.shape[1] + 1 - i][j]])
FlipCols(m) == Mat(m.shape[1], m.shape[2], [i \in 1..(m.shape[1]), j \in 1..(m.shape[2]) |-> m.rows[i][m.shape[2] + 1 - j]])
\* m[r0:r1, c0:c1] with non-negative indices: numpy clamps a slice to the array
Slice(m, r0, r1, c0, c1) ==
    LET a0 == Min2(r0, m.shape[1])
        a1 == Max2(a0, Min2(r1, m.shape[1]))
        b0 == Min2(c0, m.shape[2])
        b1 == Max2(b0, Min2(c1, m.shape[2]))
    IN  Mat(a1 - a0, b1 - b0, [i \in 1..(a1 - a0), j \in 1..(b1 - b0) |-> m.rows[a0 + i][b0 + j]])
\* a stored block taken without its mirrored half
UpperTriangleOnly(m) == m

\* np.where(m, m, m.T) on a square array
WhereSelfElseTranspose(m) ==
    Mat(m.shape[1], m.shape[2],
        [i \in 1..(m.shape[1]), j \in 1..(m.shape[2]) |-> IF m.rows[i][j] # 0 THEN m.rows[i][j] ELSE m.rows[j][i]])
\* np.hstack / np.vstack of arrays that agree on the other dimension
HStack(ms) ==
    [shape |-> <<ms[1].shape[1], SeqSum([k \in 1..Len(ms) |-> ms[k].shape[2]])>>,
     rows |-> [i \in 1..ms[1].shape[1] |->
                Concat([k \in 1..Len(ms) |-> ms[k].rows[i]])] \o <<>>]
VStack(ms) ==
    [shape |-> <<SeqSum([k \in 1..Len(ms) |-> ms[k].shape[1]]), ms[1].shape[2]>>,
     rows |-> Concat([k \in 1..Len(ms) |-> ms[k].rows])]

\* ------------------------------------------------------- the block store
\* the stripe that holds a source-order bin
StripeOfBin(r, bin) ==
    CHOOSE s \in 0..(StripeCount(r) - 1) :
        StripeStart(r, s) <= bin /\ bin < StripeStart(r, s) + StripeLength(r, s)

\* /resolutions/{R}/treap_coo: block_length = 0 (empty), block_offset < 0 (dense),
\* otherwise a COO block; blocks are stored for row stripe <= column stripe
BlockKind(r, rs, cs) ==
    IF rs = cs THEN (IF rs % 2 = 0 THEN "dense" ELSE "sparse")
    ELSE IF (rs + cs) % 3 = 2 THEN "empty"
    ELSE IF (rs + cs) % 2 = 1 THEN "sparse"
    ELSE "dense"

\* the source-order symmetric contact matrix the store was converted from
SourceMatrixCell(r, i, j) ==
    LET a == Min2(i, j)
        b == Max2(i, j)
    IN  IF BlockKind(r, StripeOfBin(r, a), StripeOfBin(r, b)) = "empty" THEN 0
        ELSE IF (a + 2 * b) % 5 = 3 THEN 0
        ELSE 100 * r + 10 * a + b + 1

\* the cell (a, b) of the stored block (rs, cs), rs <= cs; a diagonal block keeps
\* its upper triangle only; dense blocks are padded to dense_submatrix_size
BlockCell(r, rs, cs, a, b) ==
    IF a >= StripeLength(r, rs) \/ b >= StripeLength(r, cs) THEN 0
    ELSE IF rs = cs /\ a > b THEN 0
    ELSE SourceMatrixCell(r, StripeStart(r, rs) + a, StripeStart(r, cs) + b)

\* dense_blocks[index, 0, :, :]
dense_blocks(r, rs, cs) ==
    Mat(dense_submatrix_size(r), dense_submatrix_size(r),
        [i \in 1..(dense_submatrix_size(r)), j \in 1..(dense_submatrix_size(r)) |-> BlockCell(r, rs, cs, i - 1, j - 1)])

\* sparse_to_dense(coo_array(..., shape=(row stripe length, column stripe length)))
sparse_to_dense(r, rs, cs) ==
    Mat(StripeLength(r, rs), StripeLength(r, cs),
        [i \in 1..(StripeLength(r, rs)), j \in 1..(StripeLength(r, cs)) |-> BlockCell(r, rs, cs, i - 1, j - 1)])

\* StripeDescriptor.bin_weights
bin_weights(r, stripe_id) ==
    [i \in 1..StripeLength(r, stripe_id) |-> 1 + ((StripeStart(r, stripe_id) + i) % 3)]

\* ------------------------------------------------------ submatrix assembly
\* a flip that follows the direction of the row ATU only
process_row_flips(mx_as_array, row_atu, col_atu) ==
    IF row_atu.dir = REVERSED THEN FlipRows(mx_as_array) ELSE mx_as_array

process_flips(mx_as_array, row_atu, col_atu) ==
    LET m1 == IF row_atu.dir = REVERSED THEN FlipRows(mx_as_array) ELSE mx_as_array
    IN  IF col_atu.dir = REVERSED THEN FlipCols(m1) ELSE m1

\* get_stripe_intersection_for_atus_as_raw_dense_matrix before the cut to the
\* ATUs: the block of the two stripes is loaded under (min, max), made symmetric
\* when the two stripes are one, and transposed when the stripes were swapped
LoadStripeIntersection(r, row_stripe_id, col_stripe_id) ==
    LET needs_transpose == row_stripe_id > col_stripe_id
        rs == IF needs_transpose THEN col_stripe_id ELSE row_stripe_id
        cs == IF needs_transpose THEN row_stripe_id ELSE col_stripe_id
        m0 == IF BlockKind(r, rs, cs) = "dense" THEN dense_blocks(r, rs, cs)
              ELSE sparse_to_dense(r, rs, cs)
        m1 == IF row_stripe_id = col_stripe_id THEN WhereSelfElseTranspose(m0) ELSE m0
    IN  IF needs_transpose THEN Transpose(m1) ELSE m1

\* the loaded intersections of every pair of stripes (the store is read-only:
\* a load gives the same array every time)
loaded_stripe_intersections ==
    [k \in 1..Len(resolutions) |->
        [rs \in 1..StripeCount(resolutions[k]) |->
            [cs \in 1..StripeCount(resolutions[k]) |->
                LoadStripeIntersection(resolutions[k], rs - 1, cs - 1)] \o <<>>] \o <<>>] \o <<>>

ResolutionIndex(r) == CHOOSE k \in 1..Len(resolutions) : resolutions[k] = r

get_stripe_intersection_for_atus_as_raw_dense_matrix(r, row_atu, col_atu) ==
    IF BlockKind(r, Min2(row_atu.stripe, col_atu.stripe),
                 Max2(row_atu.stripe, col_atu.stripe)) = "empty"
    THEN Zeros(row_atu.end - row_atu.start, col_atu.end - col_atu.start)
    ELSE process_flips(
            Slice(loaded_stripe_intersections[ResolutionIndex(r)]
                      [row_atu.stripe + 1][col_atu.stripe + 1],
                  row_atu.start, row_atu.end, col_atu.start, col_atu.end),
            row_atu, col_atu)

\* the weights of the whole stripe of an ATU
StripeWeights(r, atu) == bin_weights(r, atu.stripe)

\* the weights of get_atu_intersection for one ATU
AtuWeights(r, atu) ==
    LET w == SubSeq(bin_weights(r, atu.stripe), atu.start + 1, atu.end)
    IN  IF atu.dir = REVERSED THEN ReverseSeq(w) ELSE w

get_atu_intersection(r, row_atu, col_atu) ==
    <<get_stripe_intersection_for_atus_as_raw_dense_matrix(r, row_atu, col_atu),
      AtuWeights(r, row_atu), AtuWeights(r, col_atu)>>

Ones(n) == [i \in 1..n |-> 1]

SubmatrixFail(msg) ==
    [ok |-> FALSE, err |-> msg, matrix |-> Zeros(0, 0), row_weights |-> <<>>, col_weights |-> <<>>]

get_submatrix(t, r, start_row, start_col, end_row, end_col, exclude_hidden_contigs) ==
    LET total_assembly_length ==
            IF exclude_hidden_contigs THEN get_sizes(t)[3][r] ELSE get_sizes(t)[1][r]
        start_row_incl == constrain_coordinate(start_row, 0, total_assembly_length)
        end_row_excl == constrain_coordinate(end_row, 0, total_assembly_length)
        start_col_incl == constrain_coordinate(start_col, 0, total_assembly_length)
        end_col_excl == constrain_coordinate(end_col, 0, total_assembly_length)
        rowq == get_atus_for_range(t, r, start_row_incl, end_row_excl, exclude_hidden_contigs)
        colq == get_atus_for_range(t, r, start_col_incl, end_col_excl, exclude_hidden_contigs)
        row_atus == rowq.atus
        col_atus == colq.atus
        query_rows_count == end_row_excl - start_row_incl
        query_cols_count == end_col_excl - start_col_incl
        row_subtotals == [i \in 1..Len(row_atus) |->
            [j \in 1..Len(col_atus) |->
                get_atu_intersection(r, row_atus[i], col_atus[j])] \o <<>>] \o <<>>
        sub(i, j) == row_subtotals[i][j]
        row_ok(i) == \A j \in 1..Len(col_atus) :
                        /\ sub(i, j)[1].shape[1] = sub(i, 1)[1].shape[1]
                        /\ sub(i, 1)[1].shape[1] = AtuLength(row_atus[i])
        row_matrices == [i \in 1..Len(row_atus) |->
            IF Len(col_atus) > 0
            THEN HStack([j \in 1..Len(col_atus) |-> sub(i, j)[1]])
            ELSE Zeros(AtuLength(row_atus[i]), 0)]
        row_subweights == IF Len(col_atus) > 0
                          THEN [i \in 1..Len(row_atus) |-> sub(i, 1)[2]]
                          ELSE <<>>
        row_weights == IF Len(row_subweights) > 0 THEN Concat(row_subweights)
                       ELSE Ones(Max2(0, query_rows_count))
        \* the column weights come from the last row of intersections
        col_subweights == IF Len(row_atus) > 0
                          THEN [j \in 1..Len(col_atus) |-> sub(Len(row_atus), j)[3]]
                          ELSE <<>>
        col_weights == IF Len(col_subweights) > 0 THEN Concat(col_subweights)
                       ELSE Ones(Max2(0, query_cols_count))
        result == IF query_rows_count > 0 /\ query_cols_count > 0
                  THEN VStack(row_matrices)
                  ELSE Zeros(Max2(0, query_rows_count), Max2(0, query_cols_count))
    IN  IF ~rowq.ok THEN SubmatrixFail(rowq.err)
        ELSE IF ~colq.ok THEN SubmatrixFail(colq.err)
        ELSE IF start_row_incl < end_row_excl /\ 0 <= start_row_incl
                /\ start_row_incl < total_assembly_length /\ ~(Len(row_atus) > 0)
        THEN SubmatrixFail("Query is correct but no rows were found??")
        ELSE IF start_col_incl < end_col_excl /\ 0 <= start_col_incl
                /\ start_col_incl < total_assembly_length /\ ~(Len(col_atus) > 0)
        THEN SubmatrixFail("Query is correct but no columns were found??")
        ELSE IF \E i \in 1..Len(row_atus) : ~row_ok(i)
        THEN SubmatrixFail("Row height is not equal to what ATU describes??")
        ELSE IF Len(row_atus) > 0 /\ Len(col_atus) = 0 /\ ~(query_cols_count <= 0)
        THEN SubmatrixFail("No column ATUs are present, but query is non-trivial for columns??")
        ELSE IF query_rows_count > 0 /\ query_cols_count > 0
                /\ \E i \in 1..Len(row_matrices) :
                        row_matrices[i].shape[2] # row_matrices[1].shape[2]
        THEN SubmatrixFail("ValueError")
        ELSE IF query_rows_count > 0 /\ query_cols_count > 0 /\ ~(Len(row_subweights) > 0)
        THEN SubmatrixFail("No row weights were fetched, but query is non-trivial for rows??")
        ELSE IF query_rows_count > 0 /\ query_cols_count > 0 /\ ~(Len(col_subweights) > 0)
        THEN SubmatrixFail("No column weights were fetched, but query is non-trivial for columns??")
        ELSE IF result.shape[1] # end_row_excl - start_row_incl
        THEN SubmatrixFail("Row count is not as queried??")
        ELSE IF result.shape[2] # end_col_excl - start_col_incl
        THEN SubmatrixFail("Column count is not as queried??")
        ELSE IF Len(row_weights) # end_row_excl - start_row_incl
        THEN SubmatrixFail("Row weights count is not as queried??")
        ELSE IF Len(col_weights) # end_col_excl - start_col_incl
        THEN SubmatrixFail("Column weights count is not as queried??")
        ELSE [ok |-> TRUE, err |-> "", matrix |-> result,
              row_weights |-> row_weights, col_weights |-> col_weights]

\* ContactMatrixFacet.get_dense_submatrix for units BINS and PIXELS
get_dense_submatrix(t, r, x0, y0, x1, y1, units, exclude_hidden_contigs) ==
    IF r \notin ResolutionSet THEN SubmatrixFail("IncorrectResolution")
    ELSE get_submatrix(t, r, x0, y0, x1, y1,
                       exclude_hidden_contigs \/ units = "PIXELS")

\* ------------------------------------------------------ the scaffold tree
\* Option<ScaffoldDescriptor>: None is the descriptor of an unscaffolded gap
NoneDescriptor == [scaffold_id |-> 0 - 1, scaffold_name |-> "None"]
ScaffoldDescriptor(scaffold_id, scaffold_name) ==
    [scaffold_id |-> scaffold_id, scaffold_name |-> scaffold_name]

ScaffoldNode(sd, length_bp) == [sd |-> sd, length_bp |-> length_bp]

\* ScaffoldTree(assembly_length_bp): one gap over the whole assembly
ScaffoldTree(assembly_length_bp) ==
    IF assembly_length_bp > 0 THEN <<ScaffoldNode(NoneDescriptor, assembly_length_bp)>>
    ELSE <<>>

subtree_length_bp(t) == SeqSum([i \in 1..Len(t) |-> t[i].length_bp])

\* merge: no zero-length node is kept, adjacent nodes of one descriptor are coalesced
RECURSIVE merge_scaffold_nodes(_)
merge_scaffold_nodes(t) ==
    IF t = <<>> THEN <<>>
    ELSE IF t[1].length_bp <= 0 THEN merge_scaffold_nodes(Tail(t))
    ELSE LET rest == merge_scaffold_nodes(Tail(t))
         IN  IF rest # <<>> /\ rest[1].sd = t[1].sd
             THEN <<ScaffoldNode(t[1].sd, t[1].length_bp + rest[1].length_bp)>> \o Tail(rest)
             ELSE <<t[1]>> \o rest

\* split_bp that hands the node that holds p to the left part undivided
RECURSIVE SplitBpLeftUndivided(_, _)
SplitBpLeftUndivided(t, p) ==
    IF t = <<>> \/ p <= 0 THEN <<>>
    ELSE <<t[1]>> \o SplitBpLeftUndivided(Tail(t), p - t[1].length_bp)

\* split_bp, left part: the nodes over [0, p); the node that holds p is divided
RECURSIVE split_bp_left(_, _)
split_bp_left(t, p) ==
    IF t = <<>> \/ p <= 0 THEN <<>>
    ELSE IF t[1].length_bp <= p
    THEN <<t[1]>> \o split_bp_left(Tail(t), p - t[1].length_bp)
    ELSE <<ScaffoldNode(t[1].sd, p)>>

\* split_bp, right part: the nodes over [p, total)
RECURSIVE split_bp_right(_, _)
split_bp_right(t, p) ==
    IF t = <<>> THEN <<>>
    ELSE IF p <= 0 THEN t
    ELSE IF t[1].length_bp <= p THEN split_bp_right(Tail(t), p - t[1].length_bp)
    ELSE <<ScaffoldNode(t[1].sd, t[1].length_bp - p)>> \o Tail(t)

\* the index of the node that contains bp p, 0 when p is outside the tree
NodeIndexAtBp(t, p) ==
    LET hits == {i \in 1..Len(t) :
                    /\ subtree_length_bp(SubSeq(t, 1, i - 1)) <= p
                    /\ p < subtree_length_bp(SubSeq(t, 1, i))}
    IN  IF hits = {} THEN 0 ELSE CHOOSE i \in hits : TRUE

\* the descriptor of the node that holds the bp before p
scaffold_before_bp(t, p) ==
    IF NodeIndexAtBp(t, p - 1) = 0 THEN NoneDescriptor ELSE t[NodeIndexAtBp(t, p - 1)].sd

get_scaffold_at_bp(t, p) ==
    IF NodeIndexAtBp(t, p) = 0 THEN NoneDescriptor ELSE t[NodeIndexAtBp(t, p)].sd

\* extend_borders_to_scaffolds: a border strictly inside a scaffold moves to the
\* start (left border) or to the end (right border) of that scaffold
extend_borders_to_scaffolds(t, l, r) ==
    LET startOf(i) == subtree_length_bp(SubSeq(t, 1, i - 1))
        endOf(i) == subtree_length_bp(SubSeq(t, 1, i))
        li == NodeIndexAtBp(t, l)
        ri == NodeIndexAtBp(t, r)
    IN  <<IF li # 0 /\ t[li].sd # NoneDescriptor /\ startOf(li) < l THEN startOf(li) ELSE l,
          IF ri # 0 /\ t[ri].sd # NoneDescriptor /\ startOf(ri) < r THEN endOf(ri) ELSE r>>

add_scaffold(t, l, r, sd) ==
    merge_scaffold_nodes(split_bp_left(t, l) \o <<ScaffoldNode(sd, r - l)>> \o split_bp_right(t, r))

\* rescaffold: the borders are extended, the new descriptor gets a fresh id
rescaffold(t, l, r, fresh_id) ==
    LET e == extend_borders_to_scaffolds(t, l, r)
    IN  add_scaffold(t, e[1], e[2], ScaffoldDescriptor(fresh_id, "generated"))

unscaffold(t, l, r) ==
    LET e == extend_borders_to_scaffolds(t, l, r)
    IN  add_scaffold(t, e[1], e[2], NoneDescriptor)

remove_segment_from_assembly(t, l, r) ==
    merge_scaffold_nodes(split_bp_left(t, l) \o split_bp_right(t, r))

\* move_selection_range: [l, r) is removed and put back at target_start, a
\* position of the tree without the segment
move_selection_range(t, l, r, target_start) ==
    LET seg == split_bp_left(split_bp_right(t, l), r - l)
        rest == remove_segment_from_assembly(t, l, r)
    IN  merge_scaffold_nodes(split_bp_left(rest, target_start) \o seg
                             \o split_bp_right(rest, target_start))

\* ------------------------------------------------------------ read access
get_ordered_contigs(t) == [i \in 1..Len(t) |-> <<t[i].cd, t[i].direction>>]
\* the scaffolds in order, each with the bp at which it ends
get_ordered_scaffold_ends(t) ==
    [i \in 1..Len(t) |-> <<t[i].sd, subtree_length_bp(SubSeq(t, 1, i))>>]
get_ordered_scaffolds(t) == [i \in 1..Len(t) |-> <<t[i].sd, t[i].length_bp>>]

\* extend_bp_borders_to_contigs
extend_bp_borders_to_contigs(t, query_start_bp, query_end_bp) ==
    LET es == expose_segment(t, 0, query_start_bp, query_end_bp, "BASE_PAIRS")
        less_size_bp == get_sizes(es.less)[1][0]
        segm_size_bp == get_sizes(es.segment)[1][0]
    IN  <<less_size_bp, less_size_bp + segm_size_bp>>

\* -------------------------------------------------------- reverse and move
\* the tree reverse_selection_range_bp commits
ReversedTree(t, st, queried_start_bp, queried_end_bp) ==
    LET e == extend_borders_to_scaffolds(st, queried_start_bp, queried_end_bp)
        es == expose_segment(t, 0, e[1], e[2], "BASE_PAIRS")
        segm == [i \in 1..Len(es.segment) |->
                    LET n == es.segment[Len(es.segment) + 1 - i]
                    IN  Node(n.cd, FlipDirection(n.direction))]
    IN  IF es.segment # <<>>
        THEN commit_exposed_segment([less |-> es.less, segment |-> segm, greater |-> es.greater])
        ELSE t

\* a move that puts the segment after a contig that ends at the target
MovedTreesAfterTarget(t, st, queried_start_bp, queried_end_bp, target_start_bp) ==
    LET e == extend_borders_to_scaffolds(st, queried_start_bp, queried_end_bp)
        es == expose_segment(t, 0, e[1], e[2], "BASE_PAIRS")
        tmp == es.less \o es.greater
        nl_nr == split_node_by_length(0, tmp, target_start_bp, TRUE, "BASE_PAIRS")
    IN  IF es.segment # <<>>
        THEN <<commit_exposed_segment(
                  [less |-> nl_nr[1], segment |-> es.segment, greater |-> nl_nr[2]]),
               move_selection_range(st, e[1], e[2], target_start_bp)>>
        ELSE <<t, st>>

\* the contig tree and the scaffold tree move_selection_range_bp commits
MovedTrees(t, st, queried_start_bp, queried_end_bp, target_start_bp) ==
    LET e == extend_borders_to_scaffolds(st, queried_start_bp, queried_end_bp)
        es == expose_segment(t, 0, e[1], e[2], "BASE_PAIRS")
        tmp == es.less \o es.greater
        nl_nr == split_node_by_length(0, tmp, target_start_bp, FALSE, "BASE_PAIRS")
    IN  IF es.segment # <<>>
        THEN <<commit_exposed_segment(
                  [less |-> nl_nr[1], segment |-> es.segment, greater |-> nl_nr[2]]),
               move_selection_range(st, e[1], e[2], target_start_bp)>>
        ELSE <<t, st>>

\* the bp positions at which a contig starts or ends
ContigBorders(t) == {get_sizes(SubSeq(t, 1, i))[1][0] : i \in 0..Len(t)}

\* the record of the last call: the handler, whether it returned or raised,
\* whether its range was on contig borders, and its arguments when the
\* specification keeps them
Last(op, ok, err, aligned, args) ==
    [op |-> op, ok |-> ok, err |-> err, aligned |-> aligned, args |-> args]


\* ---------------------------------------------------------- contig split
ValueOk(v) == [ok |-> TRUE, err |-> "", value |-> v]
ValueFail(msg) == [ok |-> FALSE, err |-> msg, value |-> 0]

\* convert_units after expose_segment: the size of es.less is read under index 0
\* (bins, bp under key 0), 1 (the node count) or 2 (pixels) of get_sizes(); the
\* node count has no entry per resolution, so that read raises
ConvertUnitsWithLess(less, position, from_resolution, from_units, to_resolution, to_units) ==
    LET size_of_less(units, r) ==
            CASE units = "BASE_PAIRS" -> SizeIn(less, 0, "BASE_PAIRS")
              [] units = "PIXELS" -> SizeIn(less, r, "PIXELS")
        left_from_units == IF less # <<>> THEN size_of_less(from_units, from_resolution) ELSE 0
        left_to_units == IF less # <<>> THEN size_of_less(to_units, to_resolution) ELSE 0
        delta_bp == IF from_units = "BASE_PAIRS" THEN position - left_from_units
                    ELSE (position - left_from_units) * from_resolution
        delta_to_units == IF to_units = "BASE_PAIRS" THEN delta_bp
                          ELSE delta_bp \div to_resolution
    IN  IF (from_units = "BASE_PAIRS") # (from_resolution = 0)
        THEN ValueFail("If converting from base pairs, set from_resolution=0")
        ELSE IF (to_units = "BASE_PAIRS") # (to_resolution = 0)
        THEN ValueFail("If converting to base pairs, set to_resolution=0")
        ELSE IF less # <<>> /\ (from_units = "BINS" \/ to_units = "BINS")
        THEN ValueFail("TypeError")
        ELSE ValueOk(left_to_units + delta_to_units)

convert_units(t, position, from_resolution, from_units, to_resolution, to_units) ==
    ConvertUnitsWithLess(
        expose_segment(t, from_resolution, position, position + 1, from_units).less,
        position, from_resolution, from_units, to_resolution, to_units)

SplitOk(lengths, atus_l, atus_r) ==
    [ok |-> TRUE, err |-> "", lengths |-> lengths, atus_l |-> atus_l, atus_r |-> atus_r]
SplitFail(msg) ==
    [ok |-> FALSE, err |-> msg, lengths |-> <<0, 0>>, atus_l |-> <<>>, atus_r |-> <<>>]

\* a cut that leaves the split bin in the right part and does not compare the
\* lengths of the two lists with the lengths of the new contigs
SplitAtJoinAtuKeepingBin(length_l, length_r, consumed, delta_l, atus_l_length_bins, atus_l0, atus_r0, old_join_atu) ==
    LET atus_l == IF delta_l > 0
                  THEN Append(atus_l0,
                         IF old_join_atu.dir = FORWARD
                         THEN ATU(old_join_atu.stripe, old_join_atu.start,
                                  old_join_atu.start + delta_l, old_join_atu.dir)
                         ELSE ATU(old_join_atu.stripe, old_join_atu.end - delta_l,
                                  old_join_atu.end, old_join_atu.dir))
                  ELSE atus_l0
        new_r_atu_start == IF old_join_atu.dir = FORWARD
                           THEN old_join_atu.start + delta_l
                           ELSE old_join_atu.start
        new_r_atu_end == IF old_join_atu.dir = FORWARD
                         THEN old_join_atu.end
                         ELSE old_join_atu.end - delta_l
        atus_r == IF new_r_atu_end - new_r_atu_start > 0
                  THEN <<ATU(old_join_atu.stripe, new_r_atu_start, new_r_atu_end,
                             old_join_atu.dir)>> \o Tail(atus_r0)
                  ELSE Tail(atus_r0)
    IN  SplitOk(<<length_l, length_r>>, atus_l, atus_r)

\* split_contig_at_bin, one resolution: the two ATU lists cut at the boundary ATU
SplitAtJoinAtu(length_l, length_r, consumed, delta_l, atus_l_length_bins, atus_l0, atus_r0, old_join_atu) ==
    LET atus_l == IF delta_l > 0
                  THEN Append(atus_l0,
                         IF old_join_atu.dir = FORWARD
                         THEN ATU(old_join_atu.stripe, old_join_atu.start,
                                  old_join_atu.start + delta_l, old_join_atu.dir)
                         ELSE ATU(old_join_atu.stripe, old_join_atu.end - delta_l,
                                  old_join_atu.end, old_join_atu.dir))
                  ELSE atus_l0
        new_r_atu_start == IF old_join_atu.dir = FORWARD
                           THEN old_join_atu.start + delta_l + consumed
                           ELSE old_join_atu.start
        new_r_atu_end == IF old_join_atu.dir = FORWARD
                         THEN old_join_atu.end
                         ELSE old_join_atu.end - delta_l + consumed
        atus_r == IF new_r_atu_end - new_r_atu_start > 0
                  THEN <<ATU(old_join_atu.stripe, new_r_atu_start, new_r_atu_end,
                             old_join_atu.dir)>> \o Tail(atus_r0)
                  ELSE Tail(atus_r0)
    IN  IF atus_l_length_bins + delta_l # length_l
        THEN SplitFail("Unexpected length of left part")
        ELSE IF AtusLength(atus_r) # length_r
        THEN SplitFail("Unexpected length of right part")
        ELSE SplitOk(<<length_l, length_r>>, atus_l, atus_r)

\* split_contig_at_bin, one resolution: the ATU where the split occurs
SplitAtIndex(old_length, r, delta_from_contig_start, delta_r, source_atus, ps, index) ==
    IF index + 1 > Len(source_atus) THEN SplitFail("IndexError")
    ELSE SplitAtJoinAtu(
            IF r = min_resolution THEN delta_from_contig_start ELSE delta_r,
            IF r = min_resolution THEN old_length - delta_from_contig_start - 1
            ELSE old_length - delta_r,
            IF r # min_resolution THEN 0 ELSE 1,
            delta_r - (IF index > 0 THEN ps[index] ELSE 0),
            IF index > 0 THEN ps[index] ELSE 0,
            SubSeq(source_atus, 1, index),
            SubSeq(source_atus, index + 1, Len(source_atus)),
            source_atus[index + 1])

\* split_contig_at_bin, one resolution: the orientation-corrected ATUs and their
\* prefix sum are searched for the split offset at this resolution
SplitWithDelta(node, r, delta_from_contig_start, cu, src_ps) ==
    IF ~cu.ok THEN SplitFail(cu.err)
    ELSE IF node.direction = REVERSED /\ src_ps = <<>> THEN SplitFail("IndexError")
    ELSE SplitAtIndex(
            node.cd.contig_length_at_resolution[r], r, delta_from_contig_start, cu.value,
            true_contig_atus(node, r),
            IF node.direction = REVERSED THEN AdjustedPrefixSum(src_ps) ELSE src_ps,
            searchsorted_left(
                IF node.direction = REVERSED THEN AdjustedPrefixSum(src_ps) ELSE src_ps,
                cu.value))

\* one turn of the loop over resolutions of split_contig_at_bin: the lengths in
\* bins and the ATU lists of the two new contigs
SplitAtResolution(t, node, r, delta_from_contig_start) ==
    SplitWithDelta(node, r, delta_from_contig_start,
        convert_units(t, delta_from_contig_start, min_resolution, "BINS", r, "BINS"),
        atu_prefix_sum_length_bins(node.cd, r))

TreesOk(t, st) == [ok |-> TRUE, err |-> "", contig_tree |-> t, scaffold_tree |-> st]
TreesFail(msg, t, st) == [ok |-> FALSE, err |-> msg, contig_tree |-> t, scaffold_tree |-> st]

\* split_contig_at_bin: the two new descriptors, their nodes, the commit and the
\* update of the scaffold tree
SplitNode(t, st, es, node, at, new_contig_length_bps, split_position_bp) ==
    LET max_contig_id == CHOOSE m \in ContigIds : \A c \in ContigIds : c <= m
        new_contig(k) ==
            make_contig_descriptor(
                max_contig_id + k,
                node.cd.contig_name \o <<IF k = 1 THEN "_hictsplit_1" ELSE "_hictsplit_2">>,
                new_contig_length_bps[k],
                [r \in ResolutionSet |-> at[r].lengths[k]],
                [r \in ResolutionSet |->
                    IF new_contig_length_bps[k] >= r THEN "AUTO_SHOWN" ELSE "AUTO_HIDDEN"],
                [r \in ResolutionSet |-> IF k = 1 THEN at[r].atus_l ELSE at[r].atus_r])
    IN  IF \E r \in ResolutionSet : ~at[r].ok
        THEN TreesFail(at[CHOOSE r \in ResolutionSet :
                            ~at[r].ok /\ \A q \in ResolutionSet : ~at[q].ok => r <= q].err,
                       t, st)
        \* a forced presence is written into the length map and the presence map
        \* is left without the resolution: no node can be made of the descriptor
        ELSE IF \E r \in ResolutionSet :
                    node.cd.presence_in_resolution[r] \in {"FORCED_HIDDEN", "FORCED_SHOWN"}
        THEN TreesFail("KeyError", t, st)
        ELSE TreesOk(
                es.less \o <<Node(new_contig(1), node.direction),
                             Node(new_contig(2), node.direction)>> \o es.greater,
                remove_segment_from_assembly(st, split_position_bp,
                                             split_position_bp + min_resolution))

\* split_contig_at_bin after the exposure of the split bin
SplitExposed(t, st, es, split_position_bins, cu_bp) ==
    IF ~cu_bp.ok THEN TreesFail(cu_bp.err, t, st)
    ELSE IF es.segment = <<>>
    THEN TreesFail("Split position does not fall into any contig?", t, st)
    ELSE IF Len(es.segment) # 1
    THEN TreesFail("Split position should fall into exactly one contig", t, st)
    ELSE SplitNode(t, st, es, es.segment[1],
            [r \in ResolutionSet |->
                SplitAtResolution(t, es.segment[1], r,
                    split_position_bins - SizeIn(es.less, min_resolution, "BINS"))],
            <<(split_position_bins - SizeIn(es.less, min_resolution, "BINS")) * min_resolution,
              es.segment[1].cd.contig_length_at_resolution[0]
                - (1 + split_position_bins - SizeIn(es.less, min_resolution, "BINS"))
                    * min_resolution>>,
            cu_bp.value)

\* split_contig_at_bin after the conversion of the split position to bins
SplitAtBins(t, st, cu_bins, cu_bp) ==
    IF ~cu_bins.ok THEN TreesFail(cu_bins.err, t, st)
    ELSE SplitExposed(t, st,
            expose_segment(t, min_resolution, cu_bins.value, cu_bins.value + 1, "BINS"),
            cu_bins.value, cu_bp)

\* split_contig_at_bin: the trees it commits, or the failure that leaves them alone
split_contig_at_bin(t, st, split_position, split_resolution, split_units) ==
    IF split_units = "BASE_PAIRS" /\ split_resolution # 0
    THEN TreesFail("In bp query resolution should be set to 0", t, st)
    ELSE SplitAtBins(t, st,
            convert_units(t, split_position, split_resolution, split_units,
                          min_resolution, "BINS"),
            convert_units(t, split_position, split_resolution, split_units,
                          0, "BASE_PAIRS"))

\* ----------------------------------------------------------------- open
\* /contig_info/ordered_contig_ids and contig_direction
ordered_contig_ids == <<0, 1, 2>>
contig_id_to_direction == [c \in ContigIds |-> FORWARD]

\* the contig tree open() builds: insert_at_position for every ordered contig id
OpenedContigTree ==
    [i \in 1..Len(ordered_contig_ids) |->
        Node(contig_id_to_contig_descriptor[ordered_contig_ids[i]],
             contig_id_to_direction[ordered_contig_ids[i]])]

total_assembly_length_bp == get_sizes(OpenedContigTree)[1][0]

Init ==
    /\ contig_tree = OpenedContigTree
    /\ scaffold_tree = ScaffoldTree(total_assembly_length_bp)
    /\ scaffold_ids = 0
    /\ nedits = 0
    /\ last = Last("open", TRUE, "", TRUE, <<>>)
    /\ threads = IdleThreads
    /\ file = OpenedFile

\* the coordinates a caller passes: every bp of the opened assembly and one beyond
BpPositions == 0..(total_assembly_length_bp + 1)
UnitsAndResolutions ==
    {<<"BASE_PAIRS", 0>>} \cup {<<u, r>> : u \in {"BINS", "PIXELS"}, r \in ResolutionSet}

\* -------------------------------------------------------------- actions
\* each handler with the record it leaves of its call
ReverseStep(queried_start_bp, queried_end_bp, args) ==
    /\ nedits' = nedits + 1
    /\ IF queried_start_bp < queried_end_bp
       THEN /\ contig_tree' = ReversedTree(contig_tree, scaffold_tree,
                                           queried_start_bp, queried_end_bp)
            /\ last' = Last("reverse_selection_range_bp", TRUE, "",
                            {queried_start_bp, queried_end_bp}
                                \subseteq ContigBorders(contig_tree), args)
       ELSE /\ contig_tree' = contig_tree
            /\ last' = Last("reverse_selection_range_bp", FALSE,
                            "Left contig border should be less than right", FALSE, args)
    /\ UNCHANGED <<scaffold_tree, scaffold_ids, threads, file>>

MoveStep(queried_start_bp, queried_end_bp, target_start_bp, args) ==
    /\ nedits' = nedits + 1
    /\ IF queried_start_bp < queried_end_bp
       THEN /\ contig_tree' = MovedTrees(contig_tree, scaffold_tree, queried_start_bp,
                                         queried_end_bp, target_start_bp)[1]
            /\ scaffold_tree' = MovedTrees(contig_tree, scaffold_tree, queried_start_bp,
                                           queried_end_bp, target_start_bp)[2]
            /\ last' = Last("move_selection_range_bp", TRUE, "",
                            {queried_start_bp, queried_end_bp}
                                \subseteq ContigBorders(contig_tree), args)
       ELSE /\ UNCHANGED <<contig_tree, scaffold_tree>>
            /\ last' = Last("move_selection_range_bp", FALSE,
                            "Left contig border should be less than right", FALSE, args)
    /\ UNCHANGED <<scaffold_ids, threads, file>>

SplitStep(split_position, split_resolution, split_units, args) ==
    /\ nedits' = nedits + 1
    /\ contig_tree' = split_contig_at_bin(contig_tree, scaffold_tree, split_position,
                                          split_resolution, split_units).contig_tree
    /\ scaffold_tree' = split_contig_at_bin(contig_tree, scaffold_tree, split_position,
                                            split_resolution, split_units).scaffold_tree
    /\ last' = Last("split_contig_at_bin",
                    split_contig_at_bin(contig_tree, scaffold_tree, split_position,
                                        split_resolution, split_units).ok,
                    split_contig_at_bin(contig_tree, scaffold_tree, split_position,
                                        split_resolution, split_units).err,
                    split_units = "BINS" /\ split_resolution = min_resolution, args)
    /\ UNCHANGED <<scaffold_ids, threads, file>>

\* the handlers within the number of edits a behaviour makes
ReverseCall(queried_start_bp, queried_end_bp, args) ==
    /\ nedits < MaxEdits
    /\ ReverseStep(queried_start_bp, queried_end_bp, args)

MoveCall(queried_start_bp, queried_end_bp, target_start_bp, args) ==
    /\ nedits < MaxEdits
    /\ MoveStep(queried_start_bp, queried_end_bp, target_start_bp, args)

SplitCall(split_position, split_resolution, split_units, args) ==
    /\ nedits < MaxEdits
    /\ SplitStep(split_position, split_resolution, split_units, args)

reverse_selection_range_bp(queried_start_bp, queried_end_bp) ==
    ReverseCall(queried_start_bp, queried_end_bp, <<>>)

move_selection_range_bp(queried_start_bp, queried_end_bp, target_start_bp) ==
    MoveCall(queried_start_bp, queried_end_bp, target_start_bp, <<>>)

SplitContigAtBin(split_position, split_resolution, split_units) ==
    SplitCall(split_position, split_resolution, split_units, <<>>)

\* scaffold_segment: the name it is given is not passed on to rescaffold
ScaffoldCall(query_start_bp, query_end_bp, name, args) ==
    /\ nedits < MaxEdits
    /\ scaffold_ids < MaxScaffoldId
    /\ nedits' = nedits + 1
    /\ scaffold_ids' = scaffold_ids + 1
    /\ scaffold_tree' = rescaffold(scaffold_tree,
            extend_bp_borders_to_contigs(contig_tree, query_start_bp, query_end_bp)[1],
            extend_bp_borders_to_contigs(contig_tree, query_start_bp, query_end_bp)[2],
            scaffold_ids + 1)
    /\ last' = Last("scaffold_segment", TRUE, "", TRUE, args)
    /\ UNCHANGED <<contig_tree, threads, file>>

UnscaffoldCall(query_start_bp, query_end_bp, args) ==
    /\ nedits < MaxEdits
    /\ nedits' = nedits + 1
    /\ scaffold_tree' = unscaffold(scaffold_tree,
            extend_bp_borders_to_contigs(contig_tree, query_start_bp, query_end_bp)[1],
            extend_bp_borders_to_contigs(contig_tree, query_start_bp, query_end_bp)[2])
    /\ last' = Last("unscaffold_segment", TRUE, "", TRUE, args)
    /\ UNCHANGED <<contig_tree, scaffold_ids, threads, file>>

\* name: Optional[str] = None
NoName == "None"

scaffold_segment(query_start_bp, query_end_bp) ==
    ScaffoldCall(query_start_bp, query_end_bp, NoName, <<>>)

unscaffold_segment(query_start_bp, query_end_bp) ==
    UnscaffoldCall(query_start_bp, query_end_bp, <<>>)

Reverse == \E l, r \in BpPositions : reverse_selection_range_bp(l, r)
Move == \E l, r, target \in BpPositions : move_selection_range_bp(l, r, target)
Split == \E p \in BpPositions : \E ur \in UnitsAndResolutions : SplitContigAtBin(p, ur[2], ur[1])
Scaffold == \E l, r \in BpPositions : l < r /\ scaffold_segment(l, r)
Unscaffold == \E l, r \in BpPositions : l < r /\ unscaffold_segment(l, r)

Next == Reverse \/ Move \/ Split \/ Scaffold \/ Unscaffold

Spec == Init /\ [][Next]_vars

\* ------------------------------------------- edits on whole contigs only
\* the calls a viewer makes: ranges and targets on contig borders, splits at a
\* bin of the finest resolution
DenseReverse == \E l, r \in ContigBorders(contig_tree) : reverse_selection_range_bp(l, r)
DenseMove ==
    \E l, r, target \in ContigBorders(contig_tree) : move_selection_range_bp(l, r, target)
DenseSplit ==
    \E p \in 0..SizeIn(contig_tree, min_resolution, "BINS") :
        SplitContigAtBin(p, min_resolution, "BINS")

NextDense == DenseReverse \/ DenseMove \/ DenseSplit

SpecDense == Init /\ [][NextDense]_vars

\* ------------------------------------- one call with its arguments on record
\* edits on whole contigs and scaffolds, then one call of reverse, move or split
\* with any arguments, which stay on record; nothing follows a recorded call
Prepare ==
    /\ last.args = <<>>
    /\ (DenseReverse \/ DenseMove \/ DenseSplit \/ Scaffold)
RecordedReverse ==
    /\ last.args = <<>>
    /\ \E l, r \in BpPositions : ReverseCall(l, r, <<l, r>>)
RecordedMove ==
    /\ last.args = <<>>
    /\ \E l, r, target \in BpPositions : MoveCall(l, r, target, <<l, r, target>>)
RecordedSplit ==
    /\ last.args = <<>>
    /\ \E p \in BpPositions : \E ur \in UnitsAndResolutions :
            SplitCall(p, ur[2], ur[1], <<p, ur[2], ur[1]>>)

\* the names a caller gives a new scaffold: none, or one of its own
ScaffoldNames == {NoName, "scaffold_a"}
RecordedScaffold ==
    /\ last.args = <<>>
    /\ \E l, r \in BpPositions : \E name \in ScaffoldNames :
            ScaffoldCall(l, r, name, <<l, r, name>>)
RecordedUnscaffold ==
    /\ last.args = <<>>
    /\ \E l, r \in BpPositions : UnscaffoldCall(l, r, <<l, r>>)

NextCalls ==
    \/ Prepare
    \/ RecordedReverse
    \/ RecordedMove
    \/ RecordedSplit
    \/ RecordedScaffold
    \/ RecordedUnscaffold

SpecCalls == Init /\ [][NextCalls]_vars

\* ------------------------------------------------ a scaffold tree on its own
\* ScaffoldTree(TestTreeLength) and sequences of its operations, as the unit
\* tests build them; the descriptors a caller adds are used once each
UserScaffolds == {ScaffoldDescriptor(101, "scaffold_a"), ScaffoldDescriptor(102, "scaffold_b")}
ScaffoldsInTree(t) == {t[i].sd : i \in 1..Len(t)}
TreePositions == 0..subtree_length_bp(scaffold_tree)

InitTree ==
    /\ contig_tree = OpenedContigTree
    /\ scaffold_tree = ScaffoldTree(TestTreeLength)
    /\ scaffold_ids = 0
    /\ nedits = 0
    /\ last = Last("ScaffoldTree", TRUE, "", TRUE, <<>>)
    /\ threads = IdleThreads
    /\ file = OpenedFile

TreeOp(op, t) ==
    /\ nedits < MaxTreeOps
    /\ nedits' = nedits + 1
    /\ scaffold_tree' = t
    /\ last' = Last(op, TRUE, "", TRUE, <<>>)
    /\ UNCHANGED <<contig_tree, threads, file>>

AddScaffoldOp(l, r, sd) ==
    /\ l < r
    /\ sd \notin ScaffoldsInTree(scaffold_tree)
    /\ TreeOp("add_scaffold", add_scaffold(scaffold_tree, l, r, sd))
    /\ UNCHANGED scaffold_ids

RescaffoldOp(l, r) ==
    /\ l < r
    /\ scaffold_ids < MaxScaffoldId
    /\ TreeOp("rescaffold", rescaffold(scaffold_tree, l, r, scaffold_ids + 1))
    /\ scaffold_ids' = scaffold_ids + 1

UnscaffoldOp(l, r) ==
    /\ l < r
    /\ TreeOp("unscaffold", unscaffold(scaffold_tree, l, r))
    /\ UNCHANGED scaffold_ids

MoveSelectionRangeOp(l, r, target_start) ==
    /\ l < r
    /\ target_start <= subtree_length_bp(scaffold_tree) - (r - l)
    /\ TreeOp("move_selection_range",
              move_selection_range(scaffold_tree, l, r, target_start))
    /\ UNCHANGED scaffold_ids

RemoveSegmentOp(l, r) ==
    /\ l < r
    /\ TreeOp("remove_segment_from_assembly",
              remove_segment_from_assembly(scaffold_tree, l, r))
    /\ UNCHANGED scaffold_ids

TreeAdd == \E l, r \in TreePositions : \E sd \in UserScaffolds : AddScaffoldOp(l, r, sd)
TreeRescaffold == \E l, r \in TreePositions : RescaffoldOp(l, r)
TreeUnscaffold == \E l, r \in TreePositions : UnscaffoldOp(l, r)
TreeMove == \E l, r, target_start \in TreePositions : MoveSelectionRangeOp(l, r, target_start)
TreeRemove == \E l, r \in TreePositions : RemoveSegmentOp(l, r)

NextTree == TreeAdd \/ TreeRescaffold \/ TreeUnscaffold \/ TreeMove \/ TreeRemove

SpecTree == InitTree /\ [][NextTree]_vars

\* ------------------------------------------------------------------- AGP
\* an AGP file is the list of its lines, a line the list of its tab-separated
\* fields as text
\* str(name): the pieces of a contig name written one after another
RECURSIVE NameText(_)
NameText(name) == IF name = <<>> THEN "" ELSE name[1] \o NameText(Tail(name))

\* int(token) of a decimal field
DecimalValue(token) ==
    IF \E n \in 0..MaxAgpCoordinate : ToString(n) = token
    THEN CHOOSE n \in 0..MaxAgpCoordinate : ToString(n) = token
    ELSE 0 - (CHOOSE n \in 1..MaxAgpCoordinate : ToString(0 - n) = token)

\* ContigDirection(value): REVERSED = 0, FORWARD = 1
ContigDirection(value) == IF value = 1 THEN FORWARD ELSE REVERSED

\* len(intercontig_spacer) of exportAGP's default 500 * 'N'
intercontig_spacer_length == 500

\* ScaffoldTree.get_scaffold_list(): the scaffolds in order with their borders
get_scaffold_list(st) ==
    LET scaffolded == SelectSeq([i \in 1..Len(st) |-> i], LAMBDA i : st[i].sd # NoneDescriptor)
    IN  [k \in 1..Len(scaffolded) |->
            [sd |-> st[scaffolded[k]].sd,
             start_bp |-> subtree_length_bp(SubSeq(st, 1, scaffolded[k] - 1)),
             end_bp |-> subtree_length_bp(SubSeq(st, 1, scaffolded[k]))]]

\* ContigTree.get_contig_list()
get_contig_list(t) == get_ordered_contigs(t)

\* exportAGP: the while loop that skips the scaffolds that end at or before the
\* contig's first bp (positions count from 0)
AdvanceScaffold(scaffold_list, position_in_scaffold_list, position_bp) ==
    CHOOSE p \in position_in_scaffold_list..Len(scaffold_list) :
        /\ p = Len(scaffold_list) \/ scaffold_list[p + 1].end_bp > position_bp
        /\ \A q \in position_in_scaffold_list..(p - 1) :
              scaffold_list[q + 1].end_bp <= position_bp

\* exportAGP: the object a contig is written under
CurrentScaffold(scaffold_list, p, position_bp, contig) ==
    IF /\ p < Len(scaffold_list)
       /\ scaffold_list[p + 1].start_bp <= position_bp
       /\ position_bp < scaffold_list[p + 1].end_bp
    THEN scaffold_list[p + 1].sd.scaffold_name
    ELSE "unscaffolded_" \o NameText(contig.contig_name)

\* exportAGP: the rows written for one contig and the loop variables after it
ExportContig(st, p, current_scaffold, contig, contig_direction) ==
    LET contig_length_bp == contig.contig_length_at_resolution[0]
        same == current_scaffold = st.prev_scaffold
        spacer == IF same
                  THEN << <<current_scaffold, ToString(st.prev_end + 1),
                            ToString(st.prev_end + intercontig_spacer_length),
                            ToString(st.component_id + 1), "N",
                            ToString(intercontig_spacer_length),
                            "scaffold", "yes", "proximity_ligation">> >>
                  ELSE <<>>
        prev_end == IF same THEN st.prev_end + intercontig_spacer_length - 1 ELSE st.prev_end
        component_id == IF same THEN st.component_id + 2 ELSE 1
    IN  [agp |-> st.agp \o spacer \o
                 << <<current_scaffold, ToString(prev_end + 1),
                      ToString(prev_end + contig_length_bp - 1),
                      ToString(component_id), "W", NameText(contig.contig_name),
                      ToString(1), ToString(contig_length_bp),
                      IF contig_direction = FORWARD THEN "+" ELSE "-">> >>,
         prev_scaffold |-> current_scaffold,
         prev_end |-> prev_end + contig_length_bp - 1,
         component_id |-> component_id,
         position_bp |-> st.position_bp + contig_length_bp,
         position_in_scaffold_list |-> p]

RECURSIVE ExportFrom(_, _, _, _)
ExportFrom(ordered_contig_descriptors, scaffold_list, i, st) ==
    IF i > Len(ordered_contig_descriptors) THEN st.agp
    ELSE ExportFrom(ordered_contig_descriptors, scaffold_list, i + 1,
            ExportContig(st,
                AdvanceScaffold(scaffold_list, st.position_in_scaffold_list, st.position_bp),
                CurrentScaffold(scaffold_list,
                    AdvanceScaffold(scaffold_list, st.position_in_scaffold_list,
                                    st.position_bp),
                    st.position_bp, ordered_contig_descriptors[i][1]),
                ordered_contig_descriptors[i][1], ordered_contig_descriptors[i][2]))

\* AGPExporter.exportAGP: the text written to the stream
exportAGP(ordered_contig_descriptors, scaffold_list) ==
    ExportFrom(ordered_contig_descriptors, scaffold_list, 1,
               [agp |-> <<>>, prev_scaffold |-> "", prev_end |-> 0, component_id |-> 1,
                position_bp |-> 0, position_in_scaffold_list |-> 0])

\* get_agp_for_assembly
get_agp_for_assembly(t, st) == exportAGP(get_contig_list(t), get_scaffold_list(st))

\* AGPparser.parseAGPLine on the fields of a line
parseAGPLine(toks) ==
    IF toks[5] = "N" THEN [ok |-> TRUE, value |-> <<"N_spacer", toks[6], "", 0, 0>>]
    ELSE IF toks[5] = "W"
    THEN [ok |-> TRUE,
          value |-> <<toks[1], toks[6], toks[9], DecimalValue(toks[7]), DecimalValue(toks[8])>>]
    ELSE [ok |-> FALSE, value |-> <<>>]

\* the direction parseAGP gives a W line
AgpDirectionForward(ctg_dir_str) == ContigDirection(1)

AgpDirection(ctg_dir_str) ==
    IF ctg_dir_str = "+" THEN ContigDirection(1) ELSE ContigDirection(0)

AGPContigRecord(name, direction, start_position, end_position) ==
    [name |-> name, direction |-> direction,
     start_position |-> start_position, end_position |-> end_position]

AGPScaffoldRecord(name, start_ctg, end_ctg) ==
    [name |-> name, start_ctg |-> start_ctg, end_ctg |-> end_ctg]

AgpFail(st, err) == [st EXCEPT !.ok = FALSE, !.err = err]

\* parseAGP: the body of the loop for line number i (from 0) with parsed fields v;
\* cur_scaf_name, start_ctg and end_ctg are bound by the first line only
ParseLine(st, i, v) ==
    IF v[1] = "N_spacer" THEN st
    ELSE IF v[3] \notin {"+", "-"}
    THEN AgpFail(st, IF st.contig_records = <<>> THEN "UnboundLocalError" ELSE "RuntimeError")
    ELSE IF i # 0 /\ ~st.bound THEN AgpFail(st, "UnboundLocalError")
    ELSE LET records == Append(st.contig_records,
                               AGPContigRecord(v[2], AgpDirection(v[3]), v[4], v[5]))
         IN  IF i = 0
             THEN [st EXCEPT !.contig_records = records, !.bound = TRUE,
                             !.cur_scaf_name = v[1], !.start_ctg = v[2], !.end_ctg = v[2]]
             ELSE IF v[1] = st.cur_scaf_name
             THEN [st EXCEPT !.contig_records = records, !.end_ctg = v[2]]
             ELSE [st EXCEPT !.contig_records = records,
                             !.scaffold_records =
                                 Append(st.scaffold_records,
                                        AGPScaffoldRecord(st.cur_scaf_name, st.start_ctg,
                                                          st.end_ctg)),
                             !.cur_scaf_name = v[1], !.start_ctg = v[2], !.end_ctg = v[2]]

RECURSIVE ParseFrom(_, _, _)
ParseFrom(agp_file, i, st) ==
    IF ~st.ok \/ i >= Len(agp_file) THEN st
    ELSE IF ~parseAGPLine(agp_file[i + 1]).ok
    THEN AgpFail(st, "unexpected symbol in agp component_type column")
    ELSE ParseFrom(agp_file, i + 1, ParseLine(st, i, parseAGPLine(agp_file[i + 1]).value))

\* parseAGP: the loop, then the record of the last scaffold
CloseLastScaffold(st) ==
    IF ~st.ok THEN st
    ELSE IF ~st.bound THEN AgpFail(st, "UnboundLocalError")
    ELSE [st EXCEPT !.scaffold_records =
                        Append(st.scaffold_records,
                               AGPScaffoldRecord(st.cur_scaf_name, st.start_ctg, st.end_ctg))]

parseAGP(agp_file) ==
    CloseLastScaffold(ParseFrom(agp_file, 0,
        [ok |-> TRUE, err |-> "", bound |-> FALSE, cur_scaf_name |-> "",
         start_ctg |-> "", end_ctg |-> "", contig_records |-> <<>>,
         scaffold_records |-> <<>>]))

\* open(): contig_name_to_contig_id, by the text of the name; -1 for a KeyError
contig_name_to_contig_id(name) ==
    IF \E c \in ContigIds : NameText(contig_names[c + 1]) = name
    THEN CHOOSE c \in ContigIds : NameText(contig_names[c + 1]) = name
    ELSE 0 - 1

\* load_assembly_from_agp: the contig tree after the records that are inserted
\* before the first name that is not registered
LoadedContigTree(contig_records) ==
    LET n == Cardinality({i \in 1..Len(contig_records) :
                 \A j \in 1..i : contig_name_to_contig_id(contig_records[j].name) >= 0})
    IN  [i \in 1..n |->
            Node(contig_id_to_contig_descriptor[
                     contig_name_to_contig_id(contig_records[i].name)],
                 contig_records[i].direction)]

\* load_assembly_from_agp: contig_id_to_borders_bp of a contig that is in the tree
LoadedBorders(t, contig_id) ==
    LET i == CHOOSE i \in 1..Len(t) :
                 /\ t[i].cd.contig_id = contig_id
                 /\ \A j \in (i + 1)..Len(t) : t[j].cd.contig_id # contig_id
    IN  <<SizeIn(SubSeq(t, 1, i - 1), 0, "BASE_PAIRS"), SizeIn(SubSeq(t, 1, i), 0, "BASE_PAIRS")>>

\* load_assembly_from_agp: the new scaffold tree, one add_scaffold per record
RECURSIVE LoadedScaffoldTree(_, _, _, _)
LoadedScaffoldTree(t, scaffold_records, scaffold_ord, new_scaffold_tree) ==
    IF scaffold_ord >= Len(scaffold_records) THEN new_scaffold_tree
    ELSE LoadedScaffoldTree(t, scaffold_records, scaffold_ord + 1,
            add_scaffold(new_scaffold_tree,
                LoadedBorders(t, contig_name_to_contig_id(
                                     scaffold_records[scaffold_ord + 1].start_ctg))[1],
                LoadedBorders(t, contig_name_to_contig_id(
                                     scaffold_records[scaffold_ord + 1].end_ctg))[2],
                ScaffoldDescriptor(scaffold_ord, scaffold_records[scaffold_ord + 1].name)))

\* load_assembly_from_agp: the trees it leaves and how it ended; a parse failure
\* changes nothing, a KeyError leaves the contigs inserted before it
LoadedTrees(t, st, parsed) ==
    IF ~parsed.ok THEN [ok |-> FALSE, err |-> parsed.err, contig_tree |-> t, scaffold_tree |-> st]
    ELSE IF Len(LoadedContigTree(parsed.contig_records)) < Len(parsed.contig_records)
    THEN [ok |-> FALSE, err |-> "KeyError",
          contig_tree |-> LoadedContigTree(parsed.contig_records), scaffold_tree |-> st]
    ELSE [ok |-> TRUE, err |-> "",
          contig_tree |-> LoadedContigTree(parsed.contig_records),
          scaffold_tree |-> LoadedScaffoldTree(LoadedContigTree(parsed.contig_records),
                                parsed.scaffold_records, 0,
                                ScaffoldTree(subtree_length_bp(st)))]

load_assembly_from_agp(t, st, agp_file) == LoadedTrees(t, st, parseAGP(agp_file))

\* ------------------------------------------------------- loading an AGP file
\* the files a caller loads: the contigs of the store in any order, each with a
\* direction and an object, a spacer line between two lines of one object
AgpObjects == {"chr1", "chr2"}
WrittenSpacer(object) ==
    <<object, "1", ToString(intercontig_spacer_length), "2", "N",
      ToString(intercontig_spacer_length), "scaffold", "yes", "proximity_ligation">>
WrittenComponent(object, component_type, name, contig_length_bp, ctg_dir_str) ==
    <<object, "1", ToString(contig_length_bp), "1", component_type, name, "1",
      ToString(contig_length_bp), ctg_dir_str>>
WrittenAgp(ids, dirs, objects) ==
    Concat([i \in 1..Len(ids) |->
        (IF i > 1 /\ objects[i] = objects[i - 1] THEN <<WrittenSpacer(objects[i])>> ELSE <<>>)
        \o <<WrittenComponent(objects[i], "W", NameText(contig_names[ids[i] + 1]),
                              contig_lengths_bp[ids[i] + 1], dirs[i])>>])
WellFormedAgpFiles ==
    UNION {{WrittenAgp(ids, dirs, objects) :
                ids \in {s \in [1..n -> ContigIds] : \A i, j \in 1..n : s[i] = s[j] => i = j},
                dirs \in [1..n -> {"+", "-"}],
                objects \in {o \in [1..n -> AgpObjects] : o[1] = "chr1"}} :
           n \in 1..Len(contig_names)}
\* files the parser or the loader cannot take: a spacer as the first line, a
\* component type that is neither W nor N, a direction that is neither + nor -,
\* a contig the store does not have, no line at all
MalformedAgpFiles ==
    {<<WrittenSpacer("chr1"), WrittenComponent("chr1", "W", "ctg0", 6, "+")>>,
     <<WrittenComponent("chr1", "W", "ctg0", 6, "+"), WrittenComponent("chr1", "U", "ctg1", 3, "+")>>,
     <<WrittenComponent("chr1", "W", "ctg0", 6, "+"), WrittenComponent("chr1", "W", "ctg1", 3, "?")>>,
     <<WrittenComponent("chr1", "W", "ctg0", 6, "+"), WrittenComponent("chr2", "W", "ctg9", 3, "+")>>,
     <<>>}

LoadCall(agp_file, loaded) ==
    /\ nedits' = nedits + 1
    /\ contig_tree' = loaded.contig_tree
    /\ scaffold_tree' = loaded.scaffold_tree
    /\ scaffold_ids' = IF loaded.ok THEN 0 ELSE scaffold_ids
    /\ last' = Last("load_assembly_from_agp", loaded.ok, loaded.err, TRUE, <<agp_file>>)
    /\ UNCHANGED <<threads, file>>

LoadAssemblyFromAgp(agp_file) ==
    LoadCall(agp_file, load_assembly_from_agp(contig_tree, scaffold_tree, agp_file))

\* edits on whole contigs and scaffolds, then one load, of the file the assembly
\* was exported to or of a file written by hand; nothing follows a load
LoadExported ==
    /\ last.args = <<>>
    /\ LoadAssemblyFromAgp(get_agp_for_assembly(contig_tree, scaffold_tree))
LoadWritten ==
    /\ last.args = <<>>
    /\ \E agp_file \in WellFormedAgpFiles \cup MalformedAgpFiles : LoadAssemblyFromAgp(agp_file)

NextAgp == Prepare \/ LoadExported \/ LoadWritten

SpecAgp == Init /\ [][NextAgp]_vars

\* ------------------------------------------------- splits between edits
\* splits at every bin of the finest resolution, between moves and reversals
\* of whole contigs; the split keeps its position in last.args
SplitsSplit ==
    /\ nedits < MaxSplitEdits
    /\ \E p \in 0..SizeIn(contig_tree, min_resolution, "BINS") :
          SplitStep(p, min_resolution, "BINS", <<p>>)
SplitsMove ==
    /\ nedits < MaxSplitEdits
    /\ \E l, r, target \in ContigBorders(contig_tree) : MoveStep(l, r, target, <<>>)
SplitsReverse ==
    /\ nedits < MaxSplitEdits
    /\ \E l, r \in ContigBorders(contig_tree) : ReverseStep(l, r, <<>>)

NextSplits == SplitsSplit \/ SplitsMove \/ SplitsReverse

SpecSplits == Init /\ [][NextSplits]_vars

\* ------------------------------------------------- calls from several threads
\* Each thread makes one call. A step is what a call does between two lock
\* operations of chunked_file.py; a method of a tree called with no lock of
\* chunked_file.py held is one step.
ThreadPositions == {0, 6, 9, 13}
ThreadRanges == {<<l, r>> \in ThreadPositions \X ThreadPositions : l < r}
ThreadAgpFile ==
    WrittenAgp(<<1, 0, 2>>, <<"+", "-", "+">>, <<"chr1", "chr1", "chr2">>)
LockedEdits == {"reverse_selection_range_bp", "move_selection_range_bp", "split_contig_at_bin"}
EditCalls ==
    {[NoCall EXCEPT !.op = "reverse_selection_range_bp", !.args = rg] : rg \in ThreadRanges}
    \cup {[NoCall EXCEPT !.op = "move_selection_range_bp", !.args = <<rg[1], rg[2], target>>] :
            rg \in ThreadRanges, target \in {0, 3}}
    \cup {[NoCall EXCEPT !.op = "split_contig_at_bin", !.args = <<1, min_resolution>>]}
    \cup {[NoCall EXCEPT !.op = "scaffold_segment", !.args = rg] : rg \in ThreadRanges}
    \cup {[NoCall EXCEPT !.op = "unscaffold_segment", !.args = rg] : rg \in ThreadRanges}
    \cup {[NoCall EXCEPT !.op = "load_assembly_from_agp", !.agp_file = ThreadAgpFile]}
ReadCalls ==
    {[NoCall EXCEPT !.op = "get_submatrix", !.args = <<min_resolution, rg[1], rg[2]>>] :
        rg \in {<<0, 3>>, <<2, 7>>}}
    \cup {[NoCall EXCEPT !.op = "get_assembly_info"]}

\* the step of a thread: its call record and its place change, the locks as given
ThreadStep(th, pc, call, contig_w, scaffold_w) ==
    threads' = [contig_w |-> contig_w, scaffold_w |-> scaffold_w,
                pc |-> [threads.pc EXCEPT ![th] = pc],
                call |-> [threads.call EXCEPT ![th] = call]]

\* the asserts of the edit pass; reverse, move and split go on to the two
\* write locks, scaffold_segment and unscaffold_segment to
\* extend_bp_borders_to_contigs, load_assembly_from_agp to the contig tree
BeginEdit(th) ==
    /\ threads.pc[th] = "idle"
    /\ \E call \in EditCalls :
          ThreadStep(th, IF call.op \in LockedEdits THEN "want_contig"
                         ELSE IF call.op = "load_assembly_from_agp" THEN "load_contigs"
                         ELSE "read_borders",
                     call, threads.contig_w, threads.scaffold_w)
    /\ UNCHANGED <<contig_tree, scaffold_tree, scaffold_ids, nedits, last, file>>

\* with self.contig_tree.root_lock.gen_wlock(), ...
AcquireContigLock(th) ==
    /\ threads.pc[th] = "want_contig"
    /\ threads.contig_w = ""
    /\ ThreadStep(th, "want_scaffold", threads.call[th], th, threads.scaffold_w)
    /\ UNCHANGED <<contig_tree, scaffold_tree, scaffold_ids, nedits, last, file>>

\* ..., self.scaffold_tree.root_lock.gen_wlock():
AcquireScaffoldLock(th) ==
    /\ threads.pc[th] = "want_scaffold"
    /\ threads.scaffold_w = ""
    /\ ThreadStep(th, "body", threads.call[th], threads.contig_w, th)
    /\ UNCHANGED <<contig_tree, scaffold_tree, scaffold_ids, nedits, last, file>>

\* the trees an edit leaves when it runs under both write locks
EditedTrees(call, t, st) ==
    IF call.op = "reverse_selection_range_bp"
    THEN <<ReversedTree(t, st, call.args[1], call.args[2]), st>>
    ELSE IF call.op = "move_selection_range_bp"
    THEN MovedTrees(t, st, call.args[1], call.args[2], call.args[3])
    ELSE <<split_contig_at_bin(t, st, call.args[1], call.args[2], "BINS").contig_tree,
           split_contig_at_bin(t, st, call.args[1], call.args[2], "BINS").scaffold_tree>>

\* the body of reverse, move or split, and the release of both locks
EditUnderLocks(th) ==
    /\ threads.pc[th] = "body"
    /\ contig_tree' = EditedTrees(threads.call[th], contig_tree, scaffold_tree)[1]
    /\ scaffold_tree' = EditedTrees(threads.call[th], contig_tree, scaffold_tree)[2]
    /\ ThreadStep(th, "done", threads.call[th], "", "")
    /\ UNCHANGED <<scaffold_ids, nedits, last, file>>

\* extend_bp_borders_to_contigs: the read lock of the contig tree, released on return
ReadBordersForScaffold(th) ==
    /\ threads.pc[th] = "read_borders"
    /\ threads.contig_w = ""
    /\ ThreadStep(th, "rescaffold",
                  [threads.call[th] EXCEPT !.borders =
                      extend_bp_borders_to_contigs(contig_tree, threads.call[th].args[1],
                                                   threads.call[th].args[2])],
                  threads.contig_w, threads.scaffold_w)
    /\ UNCHANGED <<contig_tree, scaffold_tree, scaffold_ids, nedits, last, file>>

\* self.scaffold_tree.rescaffold or unscaffold on the borders read before
ApplyScaffold(th) ==
    /\ threads.pc[th] = "rescaffold"
    /\ threads.scaffold_w = ""
    /\ IF threads.call[th].op = "scaffold_segment"
       THEN /\ scaffold_tree' = rescaffold(scaffold_tree, threads.call[th].borders[1],
                                           threads.call[th].borders[2], scaffold_ids + 1)
            /\ scaffold_ids' = scaffold_ids + 1
       ELSE /\ scaffold_tree' = unscaffold(scaffold_tree, threads.call[th].borders[1],
                                           threads.call[th].borders[2])
            /\ scaffold_ids' = scaffold_ids
    /\ ThreadStep(th, "done", threads.call[th], threads.contig_w, threads.scaffold_w)
    /\ UNCHANGED <<contig_tree, nedits, last, file>>

\* load_assembly_from_agp, first block: the contig tree is rebuilt under its
\* write lock alone, and the lock is released
LoadContigs(th) ==
    /\ threads.pc[th] = "load_contigs"
    /\ threads.contig_w = ""
    /\ contig_tree' = LoadedContigTree(parseAGP(threads.call[th].agp_file).contig_records)
    /\ ThreadStep(th, "load_scaffolds", threads.call[th], threads.contig_w, threads.scaffold_w)
    /\ UNCHANGED <<scaffold_tree, scaffold_ids, nedits, last, file>>

\* load_assembly_from_agp, second block: the read lock of the old scaffold tree,
\* a new tree filled from the borders of the first block, self.scaffold_tree replaced
LoadScaffolds(th) ==
    /\ threads.pc[th] = "load_scaffolds"
    /\ threads.scaffold_w = ""
    /\ scaffold_tree' = LoadedScaffoldTree(
            LoadedContigTree(parseAGP(threads.call[th].agp_file).contig_records),
            parseAGP(threads.call[th].agp_file).scaffold_records, 0,
            ScaffoldTree(subtree_length_bp(scaffold_tree)))
    /\ ThreadStep(th, "done", threads.call[th], threads.contig_w, threads.scaffold_w)
    /\ UNCHANGED <<contig_tree, scaffold_ids, nedits, last, file>>

\* a reading call is made
BeginRead(th) ==
    /\ threads.pc[th] = "idle"
    /\ \E call \in ReadCalls :
          ThreadStep(th, IF call.op = "get_submatrix" THEN "read_total" ELSE "read_info",
                     call, threads.contig_w, threads.scaffold_w)
    /\ UNCHANGED <<contig_tree, scaffold_tree, scaffold_ids, nedits, last, file>>

\* get_submatrix: self.contig_tree.get_sizes(), no lock taken
ReadTotal(th) ==
    /\ threads.pc[th] = "read_total"
    /\ ThreadStep(th, "read_rows",
                  [threads.call[th] EXCEPT !.total =
                      get_sizes(contig_tree)[1][threads.call[th].args[1]]],
                  threads.contig_w, threads.scaffold_w)
    /\ UNCHANGED <<contig_tree, scaffold_tree, scaffold_ids, nedits, last, file>>

\* the ATUs of a range of the reading call, clamped to the total read before
AtusOfCall(call, t) ==
    get_atus_for_range(t, call.args[1],
                       constrain_coordinate(call.args[2], 0, call.total),
                       constrain_coordinate(call.args[3], 0, call.total), FALSE).atus

\* get_submatrix: row_atus = self.get_atus_for_range(...), no lock taken
ReadRowAtus(th) ==
    /\ threads.pc[th] = "read_rows"
    /\ ThreadStep(th, "read_cols",
                  [threads.call[th] EXCEPT !.row_atus = AtusOfCall(threads.call[th], contig_tree),
                                           !.rows_seen = get_ordered_contigs(contig_tree)],
                  threads.contig_w, threads.scaffold_w)
    /\ UNCHANGED <<contig_tree, scaffold_tree, scaffold_ids, nedits, last, file>>

\* get_submatrix: col_atus = self.get_atus_for_range(...), no lock taken
ReadColAtus(th) ==
    /\ threads.pc[th] = "read_cols"
    /\ ThreadStep(th, "done",
                  [threads.call[th] EXCEPT !.col_atus = AtusOfCall(threads.call[th], contig_tree),
                                           !.cols_seen = get_ordered_contigs(contig_tree)],
                  threads.contig_w, threads.scaffold_w)
    /\ UNCHANGED <<contig_tree, scaffold_tree, scaffold_ids, nedits, last, file>>

\* get_assembly_info: both read locks, then both lists; mid_edit tells whether
\* a load had rebuilt the contig tree and not yet replaced the scaffold tree
ReadAssemblyInfo(th) ==
    /\ threads.pc[th] = "read_info"
    /\ threads.contig_w = "" /\ threads.scaffold_w = ""
    /\ ThreadStep(th, "done",
                  [threads.call[th] EXCEPT !.contigs = get_ordered_contigs(contig_tree),
                                           !.scaffolds = get_ordered_scaffolds(scaffold_tree),
                                           !.mid_edit = \E w \in Writers :
                                                threads.pc[w] = "load_scaffolds"],
                  threads.contig_w, threads.scaffold_w)
    /\ UNCHANGED <<contig_tree, scaffold_tree, scaffold_ids, nedits, last, file>>

NextThreads ==
    \/ \E th \in Writers : BeginEdit(th)
    \/ \E th \in Writers : AcquireContigLock(th)
    \/ \E th \in Writers : AcquireScaffoldLock(th)
    \/ \E th \in Writers : EditUnderLocks(th)
    \/ \E th \in Writers : ReadBordersForScaffold(th)
    \/ \E th \in Writers : ApplyScaffold(th)
    \/ \E th \in Writers : LoadContigs(th)
    \/ \E th \in Writers : LoadScaffolds(th)
    \/ BeginRead("reader")
    \/ ReadTotal("reader")
    \/ ReadRowAtus("reader")
    \/ ReadColAtus("reader")
    \/ ReadAssemblyInfo("reader")

SpecThreads == Init /\ [][NextThreads]_vars

\* ------------------------------------------- the facade on any descriptor
\* a call that raises: the descriptor and the trees stay as they were
Raise(op, err) ==
    /\ last' = Last(op, FALSE, err, FALSE, <<>>)
    /\ UNCHANGED <<contig_tree, scaffold_tree, scaffold_ids, nedits, threads, file>>
\* a query that returns
Return(op) ==
    /\ last' = Last(op, TRUE, "", TRUE, <<>>)
    /\ UNCHANGED <<contig_tree, scaffold_tree, scaffold_ids, nedits, threads, file>>

\* f.resolutions: empty until open() has read them
FileResolutions == IF file.loaded THEN ResolutionSet ELSE {}
\* the assert the edit operations and get_atus_for_range start with
RequiresOpened == file.state = "OPENED" /\ file.loaded
NotOpenedMessage == "Operation requires file to be opened"
QueriedResolutions == ResolutionSet \cup {3}

\* ContactMatrixFacet.open_file on a closed descriptor: ChunkedFile.open
OpenFile ==
    /\ file.state = "CLOSED"
    /\ file' = OpenedFile
    /\ contig_tree' = OpenedContigTree
    /\ scaffold_tree' = ScaffoldTree(total_assembly_length_bp)
    /\ scaffold_ids' = 0
    /\ last' = Last("open", TRUE, "", TRUE, <<>>)
    /\ UNCHANGED <<nedits, threads>>

\* ContactMatrixFacet.close_file on an opened descriptor: ChunkedFile.close
CloseFile ==
    /\ file.state = "OPENED"
    /\ file' = ClosedFile
    /\ last' = Last("close", TRUE, "", TRUE, <<>>)
    /\ UNCHANGED <<contig_tree, scaffold_tree, scaffold_ids, nedits, threads>>

FacadeGetResolutionsList ==
    IF file.state = "OPENED" THEN Return("get_resolutions_list")
    ELSE Raise("get_resolutions_list", "IncorrectFileStateError")

FacadeGetMatrixSizeBins ==
    \E resolution \in QueriedResolutions :
        IF file.state = "OPENED"
        THEN IF resolution \notin FileResolutions
             THEN Raise("get_matrix_size_bins", "IncorrectResolution")
             ELSE Return("get_matrix_size_bins")
        ELSE Raise("get_matrix_size_bins", "IncorrectFileStateError")

\* the assert on f.contig_tree comes before the test of the state
FacadeGetMatrixSizePx ==
    \E resolution \in QueriedResolutions :
        IF ~file.loaded THEN Raise("get_matrix_size_px", "Contig tree is not present?")
        ELSE IF file.state = "OPENED"
        THEN IF resolution \notin FileResolutions
             THEN Raise("get_matrix_size_px", "IncorrectResolution")
             ELSE Return("get_matrix_size_px")
        ELSE Raise("get_matrix_size_px", "IncorrectFileStateError")

\* get_dense_submatrix tests the resolution alone; the state is asserted by
\* get_atus_for_range, which get_submatrix calls for the rows and then for the
\* columns. On an opened file the record keeps whether both ranges resolved;
\* the matrix get_submatrix builds from them is not part of the state.
ResolvedOrRaised(row_atus, col_atus) ==
    IF ~row_atus.ok THEN Raise("get_dense_submatrix", row_atus.err)
    ELSE IF ~col_atus.ok THEN Raise("get_dense_submatrix", col_atus.err)
    ELSE Return("get_dense_submatrix")

FacadeGetDenseSubmatrix ==
    \E resolution \in QueriedResolutions, x0, y0 \in 0..1 :
        IF resolution \notin FileResolutions
        THEN Raise("get_dense_submatrix", "IncorrectResolution")
        ELSE IF ~RequiresOpened
        THEN Raise("get_dense_submatrix", "File must be opened for reading ATUs")
        ELSE ResolvedOrRaised(
                get_atus_for_range(contig_tree, resolution, y0, y0 + 2, TRUE),
                get_atus_for_range(contig_tree, resolution, x0, x0 + 2, TRUE))

FacadeReverse ==
    \E rg \in ThreadRanges :
        IF RequiresOpened THEN ReverseCall(rg[1], rg[2], <<>>)
        ELSE Raise("reverse_selection_range_bp", NotOpenedMessage)

FacadeMove ==
    \E rg \in ThreadRanges, target \in {0, 3} :
        IF RequiresOpened THEN MoveCall(rg[1], rg[2], target, <<>>)
        ELSE Raise("move_selection_range_bp", NotOpenedMessage)

FacadeGroup ==
    \E rg \in ThreadRanges :
        IF RequiresOpened THEN ScaffoldCall(rg[1], rg[2], NoName, <<>>)
        ELSE Raise("scaffold_segment", NotOpenedMessage)

FacadeUngroup ==
    \E rg \in ThreadRanges :
        IF RequiresOpened THEN UnscaffoldCall(rg[1], rg[2], <<>>)
        ELSE Raise("unscaffold_segment", NotOpenedMessage)

\* a descriptor as its constructor leaves it
InitFile ==
    /\ contig_tree = <<>>
    /\ scaffold_tree = <<>>
    /\ scaffold_ids = 0
    /\ nedits = 0
    /\ last = Last("ChunkedFile", TRUE, "", TRUE, <<>>)
    /\ threads = IdleThreads
    /\ file = ConstructedFile

NextFile ==
    \/ OpenFile
    \/ CloseFile
    \/ FacadeGetResolutionsList
    \/ FacadeGetMatrixSizeBins
    \/ FacadeGetMatrixSizePx
    \/ FacadeGetDenseSubmatrix
    \/ FacadeReverse
    \/ FacadeMove
    \/ FacadeGroup
    \/ FacadeUngroup

SpecFile == InitFile /\ [][NextFile]_vars

\* ======================================================= checked properties
\* the coordinates a range query is asked with: every bin of the assembly, one
\* below zero and one beyond the end
QueryCoordinates(r, exclude_hidden_contigs) ==
    (0 - 1)..(SizeIn(contig_tree, r, IF exclude_hidden_contigs THEN "PIXELS" ELSE "BINS") + 1)

\* C1: in every assembly state, at every stored resolution and for both
\* settings of exclude_hidden_contigs, a query [a, b) that is non-empty after
\* clamping to the assembly is answered, and the lengths of the returned ATUs
\* add up to min(b, total) - max(a, 0)
C1_AtusCoverQuery ==
    \A r \in ResolutionSet, excl \in BOOLEAN :
        \A a, b \in QueryCoordinates(r, excl) :
            LET total == SizeIn(contig_tree, r, IF excl THEN "PIXELS" ELSE "BINS")
                q == get_atus_for_range(contig_tree, r, a, b, excl)
            IN  constrain_coordinate(a, 0, total) < constrain_coordinate(b, 0, total)
                    => /\ q.ok
                       /\ AtusLength(q.atus) = Min2(b, total) - Max2(a, 0)

\* a query in bins that starts strictly inside a reversed contig and whose
\* last contig is AutoHidden at the resolution, answered with the queried length
C1_Witness ==
    \E r \in ResolutionSet :
        \E a, b \in 0..SizeIn(contig_tree, r, "BINS") :
            LET es == expose_segment(contig_tree, r, a, b, "BINS")
                q == get_atus_for_range(contig_tree, r, a, b, FALSE)
            IN  /\ a < b
                /\ Len(es.segment) >= 2
                /\ es.segment[1].direction = REVERSED
                /\ SizeIn(es.less, r, "BINS") < a
                /\ IsHidden(es.segment[Len(es.segment)], r)
                /\ q.ok
                /\ AtusLength(q.atus) = b - a

\* the whole-matrix window at a resolution, rows by columns, in source order
SourceMatrix(r, r0, c0, r1, c1) ==
    Mat(r1 - r0, c1 - c0, [i \in 1..(r1 - r0), j \in 1..(c1 - c0) |-> SourceMatrixCell(r, r0 + i - 1, c0 + j - 1)])

WindowRanges(r, exclude_hidden_contigs) ==
    {ab \in QueryCoordinates(r, exclude_hidden_contigs)
                \X QueryCoordinates(r, exclude_hidden_contigs) :
        ab[1] <= ab[2] /\ ab[2] - ab[1] <= MaxWindow}

\* C3: a dense query over ordered row and column ranges is answered with an
\* array of shape (h, w), h and w the extents of the ranges after clamping to
\* the assembly, and with h row weights and w column weights; this holds when
\* one or both of the ranges are empty as well
C3_ShapeAsQueried ==
    \A r \in ResolutionSet, excl \in BOOLEAN :
        \A rows, cols \in WindowRanges(r, excl) :
            LET total == SizeIn(contig_tree, r, IF excl THEN "PIXELS" ELSE "BINS")
                h == constrain_coordinate(rows[2], 0, total)
                        - constrain_coordinate(rows[1], 0, total)
                w == constrain_coordinate(cols[2], 0, total)
                        - constrain_coordinate(cols[1], 0, total)
                q == get_submatrix(contig_tree, r, rows[1], cols[1], rows[2], cols[2], excl)
            IN  /\ q.ok
                /\ q.matrix.shape = <<h, w>>
                /\ Len(q.matrix.rows) = h
                /\ \A i \in 1..h : Len(q.matrix.rows[i]) = w
                /\ Len(q.row_weights) = h
                /\ Len(q.col_weights) = w

\* after an edit that left a reversed contig first: a window of two rows and no
\* column, a window of no row and two columns, and a window of two by two that
\* starts inside the reversed contig
C3_Witness ==
    /\ nedits > 0
    /\ contig_tree[1].direction = REVERSED
    /\ LET r == min_resolution
           q1 == get_submatrix(contig_tree, r, 1, 3, 3, 3, FALSE)
           q2 == get_submatrix(contig_tree, r, 3, 1, 3, 3, FALSE)
           q3 == get_submatrix(contig_tree, r, 1, 2, 3, 4, FALSE)
       IN  /\ q1.ok /\ q1.matrix.shape = <<2, 0>>
           /\ Len(q1.row_weights) = 2 /\ Len(q1.col_weights) = 0
           /\ q2.ok /\ q2.matrix.shape = <<0, 2>>
           /\ Len(q2.row_weights) = 0 /\ Len(q2.col_weights) = 2
           /\ q3.ok /\ q3.matrix.shape = <<2, 2>>

\* C4: in every assembly state, at every stored resolution, the dense result
\* for rows A and columns B is the transpose of the dense result for rows B
\* and columns A (each unordered pair of ranges is read once, both ways round)
C4_TransposeSymmetry ==
    \A r \in ResolutionSet, excl \in BOOLEAN :
        \A A, B \in WindowRanges(r, excl) :
            (A[1] < B[1] \/ (A[1] = B[1] /\ A[2] <= B[2])) =>
            LET ab == get_dense_submatrix(contig_tree, r, A[1], B[1], A[2], B[2], "BINS", excl)
                ba == get_dense_submatrix(contig_tree, r, B[1], A[1], B[2], A[2], "BINS", excl)
            IN  ab.ok /\ ba.ok /\ ab.matrix = Transpose(ba.matrix)

\* a reversed contig next to a forward one: the window of the last two rows of
\* the first against the first two columns of the second holds contacts, is not
\* equal to the window read the other way round, and is its transpose
C4_Witness ==
    /\ Len(contig_tree) >= 2
    /\ contig_tree[1].direction = REVERSED
    /\ contig_tree[2].direction = FORWARD
    /\ LET r == min_resolution
           n == SizeIn(<<contig_tree[1]>>, r, "BINS")
           ab == get_dense_submatrix(contig_tree, r, n - 2, n, n, n + 2, "BINS", FALSE)
           ba == get_dense_submatrix(contig_tree, r, n, n - 2, n + 2, n, "BINS", FALSE)
       IN  /\ n >= 2
           /\ ab.ok /\ ba.ok
           /\ ab.matrix.shape = <<2, 2>>
           /\ ab.matrix # ba.matrix
           /\ ab.matrix # Zeros(2, 2)
           /\ ab.matrix = Transpose(ba.matrix)

\* the bin of the assembly before a reversal that is shown at offset i after the
\* reversal of the bins [first, first + count)
Mirrored(i, first, count) ==
    IF first <= i /\ i < first + count THEN first + (first + count - 1 - i) ELSE i

\* the whole matrix after the reversal of [l, r) holds, at row i and column j,
\* the contact of the bins that were at Mirrored(i) and Mirrored(j), and the
\* weights follow their bins, at every resolution, with and without hidden contigs
RowsMirrored(l, r) ==
    \A res \in ResolutionSet, excl \in BOOLEAN :
        LET units == IF excl THEN "PIXELS" ELSE "BINS"
            es == expose_segment(contig_tree, 0, l, r, "BASE_PAIRS")
            first == SizeIn(es.less, res, units)
            count == SizeIn(es.segment, res, units)
            total == SizeIn(contig_tree, res, units)
            before == get_submatrix(contig_tree, res, 0, 0, total, total, excl)
            after == get_submatrix(contig_tree', res, 0, 0, total, total, excl)
        IN  /\ before.ok /\ after.ok
            /\ after.matrix.shape = <<total, total>>
            /\ \A i, j \in 0..(total - 1) :
                    after.matrix.rows[i + 1][j + 1]
                        = before.matrix.rows[Mirrored(i, first, count) + 1]
                                            [Mirrored(j, first, count) + 1]
            /\ \A i \in 0..(total - 1) :
                    /\ after.row_weights[i + 1]
                            = before.row_weights[Mirrored(i, first, count) + 1]
                    /\ after.col_weights[i + 1]
                            = before.col_weights[Mirrored(i, first, count) + 1]

IntersectsNoScaffold(l, r) ==
    \A p \in l..(r - 1) : get_scaffold_at_bp(scaffold_tree, p) = NoneDescriptor

\* a second reverse_selection_range_bp(l, r), called in the state the first one
\* left, gives back the ordered contig list (and with it every dense result,
\* which is read from the contig list and the read-only store)
SecondReverseRestores(l, r) ==
    /\ ReversedTree(contig_tree', scaffold_tree', l, r) = contig_tree
    /\ get_ordered_contigs(ReversedTree(contig_tree', scaffold_tree', l, r))
            = get_ordered_contigs(contig_tree)

\* the step is a recorded call of the handler
RecordedCallOf(op) == last'.op = op /\ last'.args # <<>>

\* C6 as stated: reverse_selection_range_bp(l, r) called twice with the same
\* l < r, which may lie strictly inside contigs, over a range that intersects no
\* scaffold, restores the ordered contig list with all directions
C6_ReverseTwiceAnyRange ==
    [][RecordedCallOf("reverse_selection_range_bp") =>
            LET l == last'.args[1]
                r == last'.args[2]
            IN  (l < r /\ IntersectsNoScaffold(l, r)) => SecondReverseRestores(l, r)]_vars

\* C6: reverse_selection_range_bp(l, r) called twice with the same l < r, both
\* on contig borders, over a range that intersects no scaffold, restores the
\* ordered contig list with all directions
C6_ReverseTwiceOnBorders ==
    [][RecordedCallOf("reverse_selection_range_bp") =>
            LET l == last'.args[1]
                r == last'.args[2]
            IN  (l < r /\ {l, r} \subseteq ContigBorders(contig_tree)
                       /\ IntersectsNoScaffold(l, r))
                    => SecondReverseRestores(l, r)]_vars

\* a first reversal of two or more whole contigs has been done beside a
\* scaffold, and the same call once more gives the list of before
C6_Witness ==
    /\ last.op = "reverse_selection_range_bp" /\ last.ok /\ last.aligned
    /\ last.args # <<>>
    /\ scaffold_tree # ScaffoldTree(total_assembly_length_bp)
    /\ contig_tree # OpenedContigTree
    /\ contig_tree[1].direction = REVERSED
    /\ contig_tree[2].direction = REVERSED
    /\ ReversedTree(contig_tree, scaffold_tree, last.args[1], last.args[2])
            = OpenedContigTree

\* the contig list after move_selection_range_bp(l, r, t): the contigs that
\* covered [l, r) in their order and directions, put between the other contigs,
\* which keep their order; start is the bp at which the moved contigs begin
MovedContigsStartAt(l, r, start) ==
    LET es == expose_segment(contig_tree, 0, l, r, "BASE_PAIRS")
        rest == es.less \o es.greater
    IN  \E k \in 0..Len(rest) :
            /\ contig_tree' = SubSeq(rest, 1, k) \o es.segment \o SubSeq(rest, k + 1, Len(rest))
            /\ SizeIn(SubSeq(rest, 1, k), 0, "BASE_PAIRS") = start

\* a move the claim speaks of: a range that holds a contig and intersects no
\* scaffold, and a target in [0, total - (r - l)]
MoveAsClaimed(l, r, t) ==
    /\ l < r
    /\ IntersectsNoScaffold(l, r)
    /\ expose_segment(contig_tree, 0, l, r, "BASE_PAIRS").segment # <<>>
    /\ t <= SizeIn(contig_tree, 0, "BASE_PAIRS") - (r - l)

\* C7 as stated: after move_selection_range_bp(l, r, t) the contigs that
\* intersected [l, r) are contiguous, in their original order, and start at bp
\* exactly t; the other contigs keep their order
C7_MoveStartsAtTarget ==
    [][RecordedCallOf("move_selection_range_bp") =>
            LET l == last'.args[1]
                r == last'.args[2]
                t == last'.args[3]
            IN  MoveAsClaimed(l, r, t) => MovedContigsStartAt(l, r, t)]_vars

\* the end of the last of the leading other contigs that end before t: the last
\* border between the other contigs that lies before t, 0 when there is none
BorderBefore(l, r, t) ==
    LET es == expose_segment(contig_tree, 0, l, r, "BASE_PAIRS")
        rest == es.less \o es.greater
        endOf(i) == SizeIn(SubSeq(rest, 1, i), 0, "BASE_PAIRS")
        n == CHOOSE k \in 0..Len(rest) :
                 /\ \A j \in 1..k : endOf(j) < t
                 /\ k < Len(rest) => endOf(k + 1) >= t
    IN  endOf(n)

\* C7: after move_selection_range_bp(l, r, t) the contigs that intersected
\* [l, r) are contiguous, in their original order, and start at the last border
\* between the other contigs that lies before t (at 0 when t is 0); the other
\* contigs keep their order
C7_MoveStartsAtBorder ==
    [][RecordedCallOf("move_selection_range_bp") =>
            LET l == last'.args[1]
                r == last'.args[2]
                t == last'.args[3]
            IN  MoveAsClaimed(l, r, t)
                    => MovedContigsStartAt(l, r, BorderBefore(l, r, t))]_vars

\* a move of the first contig to a target strictly inside the last contig has
\* been done: the moved contig stands between the two others
C7_Witness ==
    /\ last.op = "move_selection_range_bp" /\ last.ok
    /\ last.args # <<>>
    /\ last.args[1] = 0 /\ last.args[2] = contig_lengths_bp[1]
    /\ last.args[3] = contig_lengths_bp[2] + 2
    /\ Len(contig_tree) = 3
    /\ contig_tree[1].cd.contig_id = 1
    /\ contig_tree[2].cd.contig_id = 0
    /\ contig_tree[3].cd.contig_id = 2

\* bin p of the finest resolution is neither the first nor the last bin of the
\* one contig that holds it
StrictlyInsideContig(p) ==
    LET es == expose_segment(contig_tree, min_resolution, p, p + 1, "BINS")
        first == SizeIn(es.less, min_resolution, "BINS")
    IN  /\ Len(es.segment) = 1
        /\ first < p
        /\ p + 1 < first + SizeIn(es.segment, min_resolution, "BINS")

\* the contig list after a split of the contig that holds bin p: two contigs
\* named after the old one in its place, their bp lengths adding up to the old
\* length less one bin of the finest resolution, everything else as it was
SplitAsDescribed(p) ==
    LET es == expose_segment(contig_tree, min_resolution, p, p + 1, "BINS")
        old == es.segment[1].cd
        k == Len(es.less)
    IN  /\ last'.ok
        /\ Len(contig_tree') = Len(contig_tree) + 1
        /\ SubSeq(contig_tree', 1, k) = es.less
        /\ SubSeq(contig_tree', k + 3, Len(contig_tree')) = es.greater
        /\ contig_tree'[k + 1].cd.contig_name = old.contig_name \o <<"_hictsplit_1">>
        /\ contig_tree'[k + 2].cd.contig_name = old.contig_name \o <<"_hictsplit_2">>
        /\ contig_tree'[k + 1].cd.contig_length_at_resolution[0]
                + contig_tree'[k + 2].cd.contig_length_at_resolution[0]
            = old.contig_length_at_resolution[0] - min_resolution
        /\ SizeIn(contig_tree', 0, "BASE_PAIRS")
            = SizeIn(contig_tree, 0, "BASE_PAIRS") - min_resolution

\* C8: split_contig_at_bin(p, R_min, BINS) with p strictly inside a contig
\* replaces that contig by two adjacent contigs <old>_hictsplit_1 and
\* <old>_hictsplit_2 whose bp lengths add up to the old length less R_min, and
\* makes the assembly R_min bp shorter
C8_SplitGivesTwoContigs ==
    [][RecordedCallOf("split_contig_at_bin") =>
            LET p == last'.args[1]
            IN  (last'.args[2] = min_resolution /\ last'.args[3] = "BINS"
                    /\ StrictlyInsideContig(p))
                => SplitAsDescribed(p)]_vars

\* the sum of the lengths get_ordered_scaffolds reports
OrderedLength(ordered) == SeqSum([i \in 1..Len(ordered) |-> ordered[i][2]])

\* no node of zero length and no two adjacent nodes of one descriptor
NodesMerged ==
    LET ordered == get_ordered_scaffolds(scaffold_tree)
    IN  /\ \A i \in 1..Len(ordered) : ordered[i][2] > 0
        /\ \A i \in 1..(Len(ordered) - 1) : ordered[i][1] # ordered[i + 1][1]

\* the lengths add up to the assembly length: a removal of [l, r) makes the
\* sum r - l shorter, every other operation keeps it
LengthFollowsAssembly ==
    /\ (last'.op # "remove_segment_from_assembly") =>
            OrderedLength(get_ordered_scaffolds(scaffold_tree'))
                = OrderedLength(get_ordered_scaffolds(scaffold_tree))
    /\ \A l, r \in TreePositions :
            RemoveSegmentOp(l, r) =>
                OrderedLength(get_ordered_scaffolds(scaffold_tree'))
                    = OrderedLength(get_ordered_scaffolds(scaffold_tree)) - (r - l)

\* the bp at which the last scaffold of the tree ends, 0 when there is none
LastScaffoldEnd(t) ==
    LET ends == {subtree_length_bp(SubSeq(t, 1, i)) :
                    i \in {j \in 1..Len(t) : t[j].sd # NoneDescriptor}}
    IN  IF ends = {} THEN 0 ELSE CHOOSE e \in ends : \A f \in ends : f <= e

\* a gap of the given length as get_ordered_scaffolds reports it, nothing when
\* the length is zero
OrderedGap(length_bp) ==
    IF length_bp > 0 THEN <<(<<NoneDescriptor, length_bp>>)>> ELSE <<>>

\* add_scaffold(l, r, sd) at or after the end of the last scaffold leaves the
\* earlier scaffolds and gaps as they were, then the gap up to l, the scaffold
\* of length r - l and the gap to the end of the assembly
AddedLeftToRight ==
    \A l, r \in TreePositions : \A sd \in UserScaffolds :
        (AddScaffoldOp(l, r, sd) /\ LastScaffoldEnd(scaffold_tree) <= l) =>
            get_ordered_scaffolds(scaffold_tree')
                = get_ordered_scaffolds(split_bp_left(scaffold_tree,
                                                      LastScaffoldEnd(scaffold_tree)))
                    \o OrderedGap(l - LastScaffoldEnd(scaffold_tree))
                    \o <<(<<sd, r - l>>)>>
                    \o OrderedGap(subtree_length_bp(scaffold_tree) - r)

\* C9: after every sequence of add_scaffold, rescaffold, unscaffold,
\* move_selection_range and remove_segment_from_assembly the scaffold tree has
\* no zero-length node and no two adjacent nodes of one descriptor, and its
\* lengths add up to the assembly length; scaffolds added left to right with
\* gaps give gaps and scaffolds in order with exact lengths
C9_ScaffoldTreeShape ==
    /\ []NodesMerged
    /\ [][LengthFollowsAssembly /\ AddedLeftToRight]_vars

\* two scaffolds added left to right, a gap before, between and after them
C9_Witness ==
    /\ last.op = "add_scaffold"
    /\ Len(get_ordered_scaffolds(scaffold_tree)) = 5
    /\ \A i \in {1, 3, 5} : get_ordered_scaffolds(scaffold_tree)[i][1] = NoneDescriptor
    /\ \A i \in {2, 4} : get_ordered_scaffolds(scaffold_tree)[i][1] \in UserScaffolds
    /\ OrderedLength(get_ordered_scaffolds(scaffold_tree)) = TestTreeLength

\* the scaffold sd is returned for every bp of [l, r) and not for l - 1, r, r + 1
CoversExactly(sd, l, r) ==
    /\ \A p \in l..(r - 1) : get_scaffold_at_bp(scaffold_tree', p) = sd
    /\ \A p \in {l - 1, r, r + 1} : get_scaffold_at_bp(scaffold_tree', p) # sd

\* C10: a scaffold added by add_scaffold(l, r, sd), or by rescaffold(l, r) on a
\* gap, is returned by get_scaffold_at_bp(p) for every p in [l, r) and not for
\* p = l - 1, r, r + 1; the positions of a range that was unscaffolded, and the
\* positions outside the tree, return None
C10_ScaffoldAtBpHalfOpen ==
    [][/\ (last'.op = "add_scaffold") =>
            \A l, r \in TreePositions : \A sd \in UserScaffolds :
                AddScaffoldOp(l, r, sd) => CoversExactly(sd, l, r)
       /\ (last'.op = "rescaffold") =>
            \A l, r \in TreePositions :
                (RescaffoldOp(l, r)
                    /\ \A p \in l..(r - 1) :
                            get_scaffold_at_bp(scaffold_tree, p) = NoneDescriptor)
                    => CoversExactly(ScaffoldDescriptor(scaffold_ids + 1, "generated"), l, r)
       /\ (last'.op = "unscaffold") =>
            \A l, r \in TreePositions :
                UnscaffoldOp(l, r) =>
                    \A p \in l..(r - 1) :
                        get_scaffold_at_bp(scaffold_tree', p) = NoneDescriptor
       /\ \A p \in {0 - 1, subtree_length_bp(scaffold_tree'),
                    subtree_length_bp(scaffold_tree') + 1} :
            get_scaffold_at_bp(scaffold_tree', p) = NoneDescriptor]_vars

\* rescaffold(0, 1) and rescaffold(2, 3) on a fresh tree: bp 0 and 2 return a
\* scaffold each, bp 1 and 3 return None
C10_Witness ==
    /\ last.op = "rescaffold"
    /\ nedits = 2
    /\ get_scaffold_at_bp(scaffold_tree, 0) = ScaffoldDescriptor(1, "generated")
    /\ get_scaffold_at_bp(scaffold_tree, 1) = NoneDescriptor
    /\ get_scaffold_at_bp(scaffold_tree, 2) = ScaffoldDescriptor(2, "generated")
    /\ get_scaffold_at_bp(scaffold_tree, 3) = NoneDescriptor

\* the load that was just done took the file the assembly was exported to
LoadedOwnExport ==
    /\ last'.op = "load_assembly_from_agp"
    /\ last'.args = <<get_agp_for_assembly(contig_tree, scaffold_tree)>>

\* C11 as stated: in every assembly state the editing operations reach, the
\* AGP text exported from the assembly is loaded by load_assembly_from_agp, and
\* the text exported after the load is the same text, line for line and field
\* for field
C11_AgpRoundTrip ==
    [][LoadedOwnExport
          => /\ last'.ok
             /\ get_agp_for_assembly(contig_tree', scaffold_tree') = last'.args[1]]_vars

\* the W lines of a file
ComponentLines(agp_file) == SelectSeq(agp_file, LAMBDA toks : toks[5] = "W")

\* C12: after a load_assembly_from_agp that succeeds, get_ordered_contigs lists
\* the contigs named by the W lines of the file, one per line and in file
\* order, FORWARD for '+' and REVERSED for '-'; the N lines add no contig
C12_LoadListsComponents ==
    [][(last'.op = "load_assembly_from_agp" /\ last'.ok)
          => LET w == ComponentLines(last'.args[1])
                 listed == get_ordered_contigs(contig_tree')
             IN  /\ Len(listed) = Len(w)
                 /\ \A i \in 1..Len(w) :
                       /\ NameText(listed[i][1].contig_name) = w[i][6]
                       /\ listed[i][2] = IF w[i][9] = "+" THEN FORWARD ELSE REVERSED]_vars

\* a file with a spacer line, a '-' line and the contigs in another order than
\* the store's has been loaded
C12_Witness ==
    /\ last.op = "load_assembly_from_agp" /\ last.ok
    /\ \E i \in 1..Len(last.args[1]) : last.args[1][i][5] = "N"
    /\ Len(contig_tree) = Len(contig_names)
    /\ contig_tree[1].cd.contig_id = 2
    /\ contig_tree[1].direction = REVERSED
    /\ contig_tree[2].direction = FORWARD

\* the scaffold that covers bp p after the step
ScaffoldMadeAt(p) == get_scaffold_at_bp(scaffold_tree', p)

\* C13 as stated: a scaffold made by scaffold_segment(l, r, name) with a name
\* carries that name (a generated name is used only when no name is given)
C13_ScaffoldCarriesName ==
    [][RecordedCallOf("scaffold_segment") =>
            LET l == last'.args[1]
                r == last'.args[2]
                name == last'.args[3]
            IN  (l < r /\ l < SizeIn(contig_tree, 0, "BASE_PAIRS") /\ name # NoName)
                    => ScaffoldMadeAt(l).scaffold_name = name]_vars

\* the first base pair of bin p of resolution r: the bp at which the contig that
\* holds the bin starts, and r bp for every bin of that contig before p
FirstBpOfBin(p, r) ==
    LET less == expose_segment(contig_tree, r, p, p + 1, "BINS").less
    IN  SizeIn(less, 0, "BASE_PAIRS") + (p - SizeIn(less, r, "BINS")) * r

\* C14 as stated: at every stored resolution r and for every bin p of the
\* assembly, in the first contig or not, convert_units(p, r, BINS, 0, BASE_PAIRS)
\* returns the first base pair of bin p, and convert_units of that base pair
\* from BASE_PAIRS to BINS at r returns p
C14_ConvertUnitsRoundTrip ==
    \A r \in ResolutionSet :
        \A p \in 0..(SizeIn(contig_tree, r, "BINS") - 1) :
            LET bp == convert_units(contig_tree, p, r, "BINS", 0, "BASE_PAIRS")
            IN  /\ bp.ok
                /\ bp.value = FirstBpOfBin(p, r)
                /\ convert_units(contig_tree, bp.value, 0, "BASE_PAIRS", r, "BINS").ok
                /\ convert_units(contig_tree, bp.value, 0, "BASE_PAIRS", r, "BINS").value = p

\* the reading call has returned
ReadReturned(th) == threads.pc[th] = "done" /\ threads.call[th].op # "none"

\* C15: a read observes one assembly state: the row ATUs and the column ATUs of
\* a dense query are computed on the same contig order, and the contigs and
\* scaffolds of an assembly-info query are not read in the middle of an edit
C15_ReadObservesOneState ==
    ReadReturned("reader") =>
        /\ threads.call["reader"].rows_seen = threads.call["reader"].cols_seen
        /\ ~threads.call["reader"].mid_edit

\* the thread has read the borders it acts on, or has mutated a tree, and has
\* mutations left to make
EditInProgress(th) == threads.pc[th] \in {"body", "rescaffold", "load_scaffolds"}

\* C16: a mutating operation holds the write lock of both trees from before it
\* reads its borders until its last mutation, so no two of them are in progress
\* at the same time
C16_WritersHoldBothLocks ==
    /\ \A th \in Writers :
          EditInProgress(th) => threads.contig_w = th /\ threads.scaffold_w = th
    /\ \A th, other \in Writers :
          EditInProgress(th) /\ EditInProgress(other) => th = other

\* the operations of the facade that need an open store
NeedOpenStore ==
    {"get_resolutions_list", "get_matrix_size_bins", "get_matrix_size_px",
     "get_dense_submatrix", "reverse_selection_range_bp", "move_selection_range_bp",
     "scaffold_segment", "unscaffold_segment"}

\* C17: an operation that needs an open store, called on a descriptor that is
\* not OPENED, fails with IncorrectFileStateError and changes no state
C17_NotOpenedIsFileStateError ==
    [][file.state # "OPENED" /\ last'.op \in NeedOpenStore
        => /\ ~last'.ok
           /\ last'.err = "IncorrectFileStateError"
           /\ UNCHANGED <<contig_tree, scaffold_tree, file>>]_vars

\* the edits that take a range of base pairs
RangeEdits ==
    {"reverse_selection_range_bp", "move_selection_range_bp",
     "scaffold_segment", "unscaffold_segment"}

\* a recorded call of a range edit with an empty or inverted range
EmptyRangeCall ==
    /\ last.args = <<>> /\ last'.args # <<>>
    /\ last'.op \in RangeEdits
    /\ last'.args[1] >= last'.args[2]

\* C18: reverse, move, group and ungroup called with l >= r are rejected with
\* IncorrectRange, and the contig order and the scaffold list stay as they were
C18_EmptyRangeRejected ==
    [][EmptyRangeCall
        => /\ ~last'.ok
           /\ last'.err = "IncorrectRange"
           /\ get_ordered_contigs(contig_tree') = get_ordered_contigs(contig_tree)
           /\ get_ordered_scaffolds(scaffold_tree') = get_ordered_scaffolds(scaffold_tree)]_vars

\* the ranges that are trivial once clamped to the assembly: empty or inverted
TrivialRanges(r, exclude_hidden_contigs) ==
    LET total == SizeIn(contig_tree, r, IF exclude_hidden_contigs THEN "PIXELS" ELSE "BINS")
    IN  {ab \in QueryCoordinates(r, exclude_hidden_contigs)
                    \X QueryCoordinates(r, exclude_hidden_contigs) :
            constrain_coordinate(ab[1], 0, total) >= constrain_coordinate(ab[2], 0, total)}

\* C19: on a trivial range the resolver returns no ATU, and a dense query whose
\* row range is trivial returns an array of zero rows, one whose column range
\* is trivial an array of zero columns; neither fails
C19_TrivialRangeIsEmpty ==
    \A r \in ResolutionSet, excl \in BOOLEAN :
        \A trivial \in TrivialRanges(r, excl) :
            /\ get_atus_for_range(contig_tree, r, trivial[1], trivial[2], excl).ok
            /\ get_atus_for_range(contig_tree, r, trivial[1], trivial[2], excl).atus = <<>>
            /\ \A other \in WindowRanges(r, excl) :
                  LET by_rows == get_submatrix(contig_tree, r, trivial[1], other[1],
                                               trivial[2], other[2], excl)
                      by_cols == get_submatrix(contig_tree, r, other[1], trivial[1],
                                               other[2], trivial[2], excl)
                  IN  /\ by_rows.ok /\ by_rows.matrix.shape[1] = 0
                      /\ by_cols.ok /\ by_cols.matrix.shape[2] = 0

C21_ContigIdsDistinct ==
    \A i, j \in 1..Len(contig_tree) :
        get_ordered_contigs(contig_tree)[i][1].contig_id
            = get_ordered_contigs(contig_tree)[j][1].contig_id => i = j

\* a split of SpecSplits is called at bin p
SplitCalledAt(p) ==
    /\ nedits' = nedits + 1
    /\ last'.op = "split_contig_at_bin"
    /\ last'.args = <<p>>

\* the contig that holds bin p of the finest resolution, as the split exposes it
ExposedForSplit(p) == expose_segment(contig_tree, min_resolution, p, p + 1, "BINS")

\* bin p lies in the first contig of the assembly, and the ATU lists of that
\* contig are cut at every resolution without a failure
CutsFirstContig(p) ==
    /\ ExposedForSplit(p).less = <<>>
    /\ Len(ExposedForSplit(p).segment) = 1
    /\ \A r \in ResolutionSet :
          SplitAtResolution(contig_tree, ExposedForSplit(p).segment[1], r, p).ok

ForcedPresence == {"FORCED_HIDDEN", "FORCED_SHOWN"}

\* the presence a part of the old contig is to have at resolution r
PresenceOfPart(old, part, r) ==
    IF old.presence_in_resolution[r] \in ForcedPresence
    THEN old.presence_in_resolution[r]
    ELSE IF part.contig_length_at_resolution[0] >= r THEN "AUTO_SHOWN" ELSE "AUTO_HIDDEN"

\* C22: the two contigs a split produces have, at every stored resolution, the
\* forced presence of the old contig, or AutoShown when their bp length is at
\* least the resolution and AutoHidden when it is not
C22_PresenceOfNewContigs ==
    [][\A p \in 0..SizeIn(contig_tree, min_resolution, "BINS") :
        SplitCalledAt(p) /\ CutsFirstContig(p)
        => /\ last'.ok
           /\ Len(contig_tree') = Len(contig_tree) + 1
           /\ \A k \in 1..2 : \A r \in ResolutionSet :
                 contig_tree'[k].cd.presence_in_resolution[r]
                    = PresenceOfPart(contig_tree[1].cd, contig_tree'[k].cd, r)]_vars

\* the bp lengths of the contigs get_ordered_contigs returns, summed
OrderedContigsLength(ordered) ==
    SeqSum([i \in 1..Len(ordered) |-> ordered[i][1].contig_length_at_resolution[0]])

\* C23: after every edit the lengths get_ordered_scaffolds returns sum to the
\* bp length of the contigs get_ordered_contigs returns
C23_ScaffoldsSpanAssembly ==
    OrderedLength(get_ordered_scaffolds(scaffold_tree))
        = OrderedContigsLength(get_ordered_contigs(contig_tree))

\* the last line of the run of equal object fields that line i of w begins
RECURSIVE RunEnd(_, _)
RunEnd(w, i) == IF i < Len(w) /\ w[i + 1][1] = w[i][1] THEN RunEnd(w, i + 1) ELSE i

\* one record per maximal run of W lines with equal object field
RECURSIVE RunRecords(_, _)
RunRecords(w, i) ==
    IF i > Len(w) THEN <<>>
    ELSE <<AGPScaffoldRecord(w[i][1], w[i][6], w[RunEnd(w, i)][6])>>
         \o RunRecords(w, RunEnd(w, i) + 1)

\* the file a load was called with
LoadedFile == last.args[1]

MadeOfComponentsAndGaps(agp_file) ==
    \A i \in 1..Len(agp_file) :
        /\ agp_file[i][5] \in {"W", "N"}
        /\ agp_file[i][5] = "W" => agp_file[i][9] \in {"+", "-"}

\* C24: of a file made of W and N lines the parser returns one scaffold record
\* per maximal run of W lines with equal object field, in file order, with the
\* first and the last contig name of the run, N lines starting and ending no
\* run wherever they stand; a line of another component type aborts the parse
C24_ScaffoldRecordPerRun ==
    last.op = "load_assembly_from_agp"
    => /\ MadeOfComponentsAndGaps(LoadedFile)
          => /\ parseAGP(LoadedFile).ok
             /\ parseAGP(LoadedFile).scaffold_records
                    = RunRecords(ComponentLines(LoadedFile), 1)
       /\ (\E i \in 1..Len(LoadedFile) : LoadedFile[i][5] \notin {"W", "N"})
          => ~parseAGP(LoadedFile).ok

\* the left part split_bp(root, k, include_equal_to_the_left = True) returns
LeftOfSplit(k) == split_bp_left(scaffold_tree, k)

EndsWithScaffold(l) == l # <<>> /\ l[Len(l)].sd # NoneDescriptor

\* C25: for every k from 0 to the length of the tree the left part of split_bp
\* is exactly k bp long when it is empty or ends with a gap, and at least k bp
\* long when it ends with a node that carries a scaffold
C25_SplitLeftLength ==
    \A k \in 0..subtree_length_bp(scaffold_tree) :
        /\ ~EndsWithScaffold(LeftOfSplit(k)) => subtree_length_bp(LeftOfSplit(k)) = k
        /\ EndsWithScaffold(LeftOfSplit(k)) => subtree_length_bp(LeftOfSplit(k)) >= k

\* a tree of two scaffolds and gaps, cut inside a gap and inside a scaffold
C25_Witness ==
    /\ last.op = "add_scaffold"
    /\ Cardinality(ScaffoldsInTree(scaffold_tree) \ {NoneDescriptor}) = 2
    /\ \E k, j \in 1..(subtree_length_bp(scaffold_tree) - 1) :
          /\ EndsWithScaffold(LeftOfSplit(k))
          /\ EndsWithScaffold(split_bp_right(scaffold_tree, k))
          /\ split_bp_right(scaffold_tree, k)[1].sd = LeftOfSplit(k)[Len(LeftOfSplit(k))].sd
          /\ ~EndsWithScaffold(LeftOfSplit(j))
          /\ split_bp_right(scaffold_tree, j)[1].sd = NoneDescriptor
          /\ subtree_length_bp(LeftOfSplit(j)) = j

\* the scaffolds get_ordered_scaffolds reports, each with the bp it starts at and
\* the bp it ends at
ReportedScaffolds(st) ==
    {<<get_ordered_scaffolds(st)[i][1],
       OrderedLength(SubSeq(get_ordered_scaffolds(st), 1, i - 1)),
       OrderedLength(SubSeq(get_ordered_scaffolds(st), 1, i))>> :
        i \in {j \in 1..Len(st) : st[j].sd # NoneDescriptor}}

\* every reported scaffold starts and ends on a border between contigs
ScaffoldsOnContigBorders(t, st) ==
    \A s \in ReportedScaffolds(st) : s[2] \in ContigBorders(t) /\ s[3] \in ContigBorders(t)

\* the contigs with a bp inside [start_bp, end_bp)
ContigsWithin(t, start_bp, end_bp) ==
    {t[i].cd.contig_id : i \in {j \in 1..Len(t) :
        /\ SizeIn(SubSeq(t, 1, j - 1), 0, "BASE_PAIRS") < end_bp
        /\ SizeIn(SubSeq(t, 1, j), 0, "BASE_PAIRS") > start_bp}}

\* each reported scaffold with the contigs it covers
ScaffoldCover(t, st) ==
    {<<s[1], ContigsWithin(t, s[2], s[3])>> : s \in ReportedScaffolds(st)}

RecordedReverseOrMove ==
    /\ \/ RecordedCallOf("reverse_selection_range_bp")
       \/ RecordedCallOf("move_selection_range_bp")
    /\ last'.ok

\* C26: after a reverse or a move on a state whose scaffolds lie on contig
\* borders, every scaffold get_ordered_scaffolds reports starts and ends on
\* contig borders and covers the contigs it covered before the call
C26_ScaffoldsKeepContigs ==
    [][RecordedReverseOrMove /\ ScaffoldsOnContigBorders(contig_tree, scaffold_tree)
       => /\ ScaffoldsOnContigBorders(contig_tree', scaffold_tree')
          /\ ScaffoldCover(contig_tree', scaffold_tree')
                = ScaffoldCover(contig_tree, scaffold_tree)]_vars

\* bin p of the finest resolution lies inside one contig
BinInsideContig(p) == Len(ExposedForSplit(p).segment) = 1

\* the cells an ATU list covers: stripe and bin within the stripe
AtuCells(atus) ==
    UNION {{<<atus[i].stripe, b>> : b \in atus[i].start..(atus[i].end - 1)} :
             i \in 1..Len(atus)}

\* the ATU lists of the two parts do not overlap and cover the cells of the
\* old contig but for the bins the split consumes at resolution r
PartsCoverOld(old, left, right, r) ==
    /\ AtuCells(left.cd.atus[r]) \cap AtuCells(right.cd.atus[r]) = {}
    /\ AtuCells(left.cd.atus[r]) \cup AtuCells(right.cd.atus[r]) \subseteq AtuCells(old.cd.atus[r])
    /\ Cardinality(AtuCells(old.cd.atus[r])
                      \ (AtuCells(left.cd.atus[r]) \cup AtuCells(right.cd.atus[r])))
          = IF r = min_resolution THEN 1 ELSE 0

\* C27: a split at a bin inside a contig, Forward or Reversed, on a border
\* between two ATUs or off it, ends without a failure, and at every resolution
\* the ATU lists of the two parts do not overlap and cover the cells of the
\* old contig but for the one bin consumed at the finest resolution
C27_SplitCompletes ==
    [][\A p \in 0..SizeIn(contig_tree, min_resolution, "BINS") :
        SplitCalledAt(p) /\ BinInsideContig(p)
        => /\ last'.ok
           /\ \A r \in ResolutionSet :
                 PartsCoverOld(ExposedForSplit(p).segment[1],
                               contig_tree'[Len(ExposedForSplit(p).less) + 1],
                               contig_tree'[Len(ExposedForSplit(p).less) + 2], r)]_vars

\* the contigs of the assembly that a split produced
SplitProducts ==
    {i \in 1..Len(contig_tree) :
        contig_tree[i].cd.contig_id \notin {ordered_contig_ids[j] : j \in 1..Len(ordered_contig_ids)}}

\* C28: the contigs a split produces have a bp length of at least 0 and a
\* length in bins of at least 0 at every resolution
C28_SplitLengthsNotNegative ==
    \A i \in SplitProducts :
        /\ contig_tree[i].cd.contig_length_at_resolution[0] >= 0
        /\ \A r \in ResolutionSet : contig_tree[i].cd.contig_length_at_resolution[r] >= 0

\* C29: a load_assembly_from_agp that fails leaves the lists get_ordered_contigs
\* and get_ordered_scaffolds return as they were before the call
C29_FailedLoadChangesNothing ==
    [][(last'.op = "load_assembly_from_agp" /\ ~last'.ok)
          => /\ get_ordered_contigs(contig_tree') = get_ordered_contigs(contig_tree)
             /\ get_ordered_scaffolds(scaffold_tree')
                    = get_ordered_scaffolds(scaffold_tree)]_vars

\* the contigs that lie in an unscaffolded gap
UnscaffoldedContigs(t, st) ==
    {t[i].cd.contig_id : i \in 1..Len(t)}
        \ UNION {ContigsWithin(t, s[2], s[3]) : s \in ReportedScaffolds(st)}

\* each reported scaffold, by its name, with the contigs it covers
NamedScaffoldCover(t, st) ==
    {<<s[1].scaffold_name, ContigsWithin(t, s[2], s[3])>> : s \in ReportedScaffolds(st)}

\* C30: after the load of the AGP text the assembly was exported to, the
\* contigs that lay in an unscaffolded gap lie in an unscaffolded gap, and
\* every scaffold covers the contigs it covered before
C30_RoundTripKeepsScaffolds ==
    [][LoadedOwnExport /\ last'.ok /\ ScaffoldsOnContigBorders(contig_tree, scaffold_tree)
          => /\ UnscaffoldedContigs(contig_tree', scaffold_tree')
                    = UnscaffoldedContigs(contig_tree, scaffold_tree)
             /\ NamedScaffoldCover(contig_tree', scaffold_tree')
                    = NamedScaffoldCover(contig_tree, scaffold_tree)]_vars

====
